---- MODULE Spec2Model ----
(***************************************************************************)
(* Model of the goal orchestration core of chrom-ar/client-agent           *)
(* (packages/client-chroma): the ChromaService tick (processGoals), the    *)
(* classification memo (isCryptoGoal), the three registered goal handlers  *)
(* (SingleChainGoalHandler, CDPGoalHandler, MultiChainGoalHandler), the    *)
(* retry combinator (retryWithBackoff) and signer routing                  *)
(* (getSignatureHandler / supportsChain).                                  *)
(*                                                                         *)
(* Granularity.  JavaScript runs a callback to completion; another tick    *)
(* can only run while the current one is suspended on a promise that is    *)
(* settled by I/O or a timer.  One action of the model is therefore the    *)
(* code between two such suspensions: the oracle call of isCryptoGoal, one *)
(* attempt of a retry-wrapped operation (its delay included), the          *)
(* generateText call that precedes a retry, the store write of the abort   *)
(* path, the store write of failGoal.                                      *)
(***************************************************************************)
EXTENDS Integers, Sequences, FiniteSets, TLC

\* ------------------------------------------------------------------ bounds
MaxGoals == 1
MaxTicks == 2
\* longest time, in ms, one balance query of the bridge poll takes to answer
MaxLatencyMs == 600000
\* calls of the CREATE_CHROMA_GOAL handler in one run
MaxCalls == 2
\* transactions in the proposal that handleProposal signs
MaxTxs == 2
\* goals in the store of the scheduling model of processGoals
MaxSchedGoals == 3
\* interval timers that setInterval hands out in one run
MaxTimers == 6

Goals == 1..MaxGoals
Ticks == 1..MaxTicks
SchedGoals == 1..MaxSchedGoals

\* ------------------------------------------------------- program constants
MAX_RETRIES == 3
RETRY_DELAY_MS == 1000

\* ------------------------------------------------------------ goal shapes
SingleChainObjectiveIds ==
  <<"introduce-agent", "present-operation", "confirm-intent", "process-proposal">>

CDPObjectiveIds ==
  <<"ask-for-wallet", "present-operation", "confirm-intent", "confirm-proposal">>

MultiChainObjectiveIds ==
  <<"introduce-agent", "present-operation", "confirm-intent", "process-proposal",
    "present-bridge-operation-chain-a", "confirm-intent-bridge-chain-a",
    "process-proposal-bridge-chain-a", "wait-for-chain-b-confirmation",
    "present-deposit-operation-chain-b", "confirm-intent-deposit-chain-b",
    "process-proposal-deposit-chain-b">>

\* a goal of the autonomous-yield shape: no registered handler supports it
AutoYieldObjectiveIds == <<"check-balance">>

GoalShapes ==
  {SingleChainObjectiveIds, CDPObjectiveIds, MultiChainObjectiveIds, AutoYieldObjectiveIds}

\* obj.id.includes('chain') over the objective ids that occur
IncludesChain(id) ==
  id \in {"present-bridge-operation-chain-a", "confirm-intent-bridge-chain-a",
          "process-proposal-bridge-chain-a", "wait-for-chain-b-confirmation",
          "present-deposit-operation-chain-b", "confirm-intent-deposit-chain-b",
          "process-proposal-deposit-chain-b"}

NewObjectives(ids) ==
  [i \in 1..Len(ids) |-> [id |-> ids[i], completed |-> FALSE, status |-> "none"]]

ObjectiveIdsOf(objs) == {objs[i].id : i \in 1..Len(objs)}

PendingIndex_Last(objs) ==
  IF \E i \in 1..Len(objs) : ~objs[i].completed
  THEN CHOOSE i \in 1..Len(objs) :
         /\ ~objs[i].completed
         /\ \A j \in (i + 1)..Len(objs) : objs[j].completed
  ELSE 0

\* goal.objectives.find(obj => !obj.completed): index of it, 0 when none
PendingIndex(objs) ==
  IF \E i \in 1..Len(objs) : ~objs[i].completed
  THEN CHOOSE i \in 1..Len(objs) :
         /\ ~objs[i].completed
         /\ \A j \in 1..(i - 1) : objs[j].completed
  ELSE 0

\* goal.objectives.find(o => o.id === objectiveId): index of it, 0 when none
FindObjective(objs, oid) ==
  IF \E i \in 1..Len(objs) : objs[i].id = oid
  THEN CHOOSE i \in 1..Len(objs) :
         /\ objs[i].id = oid
         /\ \A j \in 1..(i - 1) : objs[j].id # oid
  ELSE 0

AllCompleted(objs) == \A i \in 1..Len(objs) : objs[i].completed

\* ----------------------------------------------------- replies, proposals
\* A proposal as the signers see it: the optional `transaction` object
\* ("absent", "plain" = present without serializedTransaction,
\* "emptySerialized" = serializedTransaction: '', "serialized") and whether
\* the `transactions` array is present and non-empty.
ProposalShapes ==
  { [transaction |-> "serialized", transactions |-> FALSE],
    [transaction |-> "absent", transactions |-> TRUE],
    [transaction |-> "absent", transactions |-> FALSE],
    [transaction |-> "emptySerialized", transactions |-> FALSE] }

\* A ChromaResponse kept as a goal's working response.
NoResponse == [present |-> FALSE, intent |-> FALSE, hasProposals |-> FALSE, proposals |-> <<>>]

IntentResponse == [present |-> TRUE, intent |-> TRUE, hasProposals |-> FALSE, proposals |-> <<>>]

TextResponse == [present |-> TRUE, intent |-> FALSE, hasProposals |-> FALSE, proposals |-> <<>>]

ProposalResponse(ps) == [present |-> TRUE, intent |-> FALSE, hasProposals |-> TRUE, proposals |-> ps]

EmptyGoalState ==
  [processingGoals |-> {},
   goalResponses |-> [g \in Goals |-> NoResponse],
   cryptoGoalCache |-> [g \in Goals |-> "absent"]]

\* registration order of ChromaService.handlers
Handlers == <<"single", "cdp", "multi">>

HandlerNames == {Handlers[i] : i \in 1..Len(Handlers)}

\* registration order of the signature handlers of every goal handler
SignatureHandlers == <<"evm", "solana">>

\* handleBridgeConfirmation before it is called: `now` is Date.now() - startTime
\* in ms, waits the poll sleeps taken, zeros the balance reads that saw nothing,
\* lastQueryAt the value of `now` when the latest balance query was sent
IdlePoll ==
  [pc |-> "idle", now |-> 0, checkInterval |-> 0, waits |-> <<>>, zeros |-> 0,
   attempt |-> 0, result |-> "none", completed |-> FALSE, aborted |-> FALSE,
   hasBalance |-> FALSE, lastQueryAt |-> 0]

\* the CREATE_CHROMA_GOAL handler before any call
IdleCreateGoal ==
  [pc |-> "idle", calls |-> 0, message |-> <<>>, goal |-> <<>>, store |-> "none",
   before |-> 0, created |-> <<>>, result |-> "none"]

\* handleProposal before it is called; of the running call of signProposal,
\* `order` lists the transactions in the order sendTransaction broadcast them,
\* `results` is its array of hashes (each named by its transaction's index)
\* and `call` says whether it runs, returned `results` or threw
IdleBroadcast ==
  [pc |-> "idle", n |-> 0, next |-> 1, sent |-> <<>>, attempt |-> 0, result |-> "none",
   order |-> <<>>, results |-> <<>>, call |-> "none"]

\* placeholder for "no proposal has been routed"
NoProposal == [transaction |-> "none", transactions |-> FALSE]

\* ChromaService after initialize: setInterval handed out timer 1, which is
\* active and held in checkInterval; `pending` counts the calls of initialize
\* that have not reached startGoalChecking, `last` is the lifecycle call that
\* ran last
StartedTimer ==
  [active |-> {1}, checkInterval |-> 1, issued |-> 1, pending |-> 0,
   last |-> "initialize"]

\* one invocation of processGoals in the scheduling model: `running` holds the
\* goals whose handler.processObjective call was made and has not settled,
\* `others` (history) the goals other invocations were running when this one
\* started
IdleSchedTick == [pc |-> "idle", goals |-> <<>>, running |-> {}, others |-> {}]

\* the scheduling model before any tick: every goal of the store in progress
IdleSched ==
  [status |-> [g \in SchedGoals |-> "IN_PROGRESS"],
   processingGoals |-> {},
   cryptoGoalCache |-> [g \in SchedGoals |-> "absent"],
   tick |-> [t \in Ticks |-> IdleSchedTick]]

\* AutoYieldGoalHandler.handleProcessProposal before it is called
IdleAutoYield ==
  [pc |-> "idle", calls |-> 0, signed |-> FALSE, completed |-> FALSE,
   persisted |-> FALSE, text |-> "none", store |-> "none", status |-> "IN_PROGRESS",
   before |-> 0, created |-> <<>>]

\* SolanaSignatureHandler.signProposal before it is called
IdleSolana ==
  [pc |-> "idle", calls |-> 0, proposal |-> NoProposal, setting |-> "null",
   simulations |-> 0, broadcasts |-> 0, result |-> "none"]

IdleTick ==
  [pc |-> "idle", goals |-> <<>>, h |-> "none", obj |-> "none",
   attempt |-> 0, outs |-> <<>>, waits |-> <<>>, res |-> "none",
   sign |-> "none", to |-> "none", proposal |-> NoProposal, verdict |-> "none"]

VARIABLES
  db,        \* the goal store: db[g] = [status, objs]
  svc,       \* ChromaService: processingGoals, goalResponses, cryptoGoalCache
  hs,        \* hs[h]: BaseGoalHandler.state of handler h
  tick,      \* tick[t]: one invocation of processGoals: its position (pc), the goals
             \* still to traverse (head = the current one, as read from the store and
             \* mutated locally), the handler and objective in hand, the state of
             \* the running retry and what its last attempt did with the signers
  opTruthy,  \* history: opTruthy[g] = objective ids whose wrapped operation returned true
  faulted,   \* history: goals for which the environment gave a non-accepting outcome
  skipRest,  \* history: goals whose remaining objectives were marked completed by
             \* the skip branch of the multi-chain handleOperation
  timer,     \* the interval timers of ChromaService: the active ones and checkInterval
  poll,      \* one call of MultiChainGoalHandler.handleBridgeConfirmation, with its clock
  cg,        \* calls of the CREATE_CHROMA_GOAL handler and the goals they stored
  bc,        \* one call of handleProposal seen transaction by transaction
  sch,       \* processGoals over several goals, the handler call taken as one suspension
  ay,        \* calls of AutoYieldGoalHandler.handleProcessProposal
  sol        \* calls of SolanaSignatureHandler.signProposal

\* the variables of the orchestrator and its handlers
orch == <<db, svc, hs, tick, opTruthy, faulted, skipRest>>

\* the variables of the operations that are modelled on their own
ext == <<sch, ay, sol>>

aux == <<timer, poll, cg, bc, ext>>

vars == <<db, svc, hs, tick, opTruthy, faulted, skipRest, timer, poll, cg, bc, sch, ay, sol>>

Init ==
  /\ db \in [Goals -> {[status |-> "IN_PROGRESS", objs |-> NewObjectives(s)] : s \in GoalShapes}]
  /\ svc = EmptyGoalState
  /\ hs = [h \in HandlerNames |-> EmptyGoalState]
  /\ tick = [t \in Ticks |-> IdleTick]
  /\ opTruthy = [g \in Goals |-> {}]
  /\ faulted = {}
  /\ skipRest = {}
  /\ timer = StartedTimer
  /\ poll = IdlePoll
  /\ cg = IdleCreateGoal
  /\ bc = IdleBroadcast
  /\ sch = IdleSched
  /\ ay = IdleAutoYield
  /\ sol = IdleSolana

\* ------------------------------------------------------------- goal store
RECURSIVE GoalsFrom(_)
GoalsFrom(i) ==
  IF i > MaxGoals THEN <<>>
  ELSE (IF db[i].status = "IN_PROGRESS"
        THEN <<[id |-> i, objs |-> db[i].objs]>>
        ELSE <<>>) \o GoalsFrom(i + 1)

\* databaseAdapter.getGoals({agentId, roomId, onlyInProgress: true})
GetGoals == GoalsFrom(1)

\* ------------------------------------------------------------ the handlers
SupportsGoal(h, objs) ==
  CASE h = "single" ->
         /\ "introduce-agent" \in ObjectiveIdsOf(objs)
         /\ ~\E id \in ObjectiveIdsOf(objs) : IncludesChain(id)
    [] h = "cdp" -> "ask-for-wallet" \in ObjectiveIdsOf(objs)
    [] h = "multi" ->
         /\ "introduce-agent" \in ObjectiveIdsOf(objs)
         /\ \E id \in ObjectiveIdsOf(objs) : IncludesChain(id)

GetHandlerForGoal_FirstRegistered(objs) == Handlers[1]

\* ChromaService.getHandlerForGoal: the first registered handler that supports
\* the goal, "none" for undefined
GetHandlerForGoal(objs) ==
  IF \E i \in 1..Len(Handlers) : SupportsGoal(Handlers[i], objs)
  THEN Handlers[CHOOSE i \in 1..Len(Handlers) :
                  /\ SupportsGoal(Handlers[i], objs)
                  /\ \A j \in 1..(i - 1) : ~SupportsGoal(Handlers[j], objs)]
  ELSE "none"

\* ------------------------------------------------------- tick bookkeeping
CurGoal(t) == Head(tick[t].goals).id

CurObjs(t) == Head(tick[t].goals).objs

HandlerPcs == {"process", "genText", "retry", "afterRetry", "catch"}

\* "rethrown": processObjective has thrown, the catch of processGoals runs next

\* tick t is inside handler.processObjective(goal) for goal g
InFlight(t, g) ==
  /\ tick[t].pc \in HandlerPcs
  /\ CurGoal(t) = g

\* next iteration of `for (const goal of goals)`, or the end of processGoals
Advance(tk) ==
  IF Len(tk.goals) <= 1
  THEN IdleTick
  ELSE [IdleTick EXCEPT !.pc = "loop", !.goals = Tail(tk.goals)]

AlreadyProcessing_NoCheck(s, g) == FALSE

\* this.processingGoals.has(goal.id)
AlreadyProcessing(s, g) == g \in s.processingGoals

\* the try block of processGoals up to the handler call: processingGoals.add,
\* getHandlerForGoal, `continue` when no handler supports the goal
EnterHandler(t, s) ==
  LET g == CurGoal(t)
      h == GetHandlerForGoal(CurObjs(t))
  IN /\ svc' = [s EXCEPT !.processingGoals = @ \cup {g}]
     /\ tick' = [tick EXCEPT ![t] =
                   IF h = "none" THEN Advance(tick[t])
                   ELSE [@ EXCEPT !.pc = "process", !.h = h]]

\* setInterval callback: processGoals reads the in-progress goals (idle
\* invocation slots are interchangeable, the lowest one is taken)
TickStart(t) ==
  /\ timer.active # {}
  /\ tick[t].pc = "idle"
  /\ \A u \in Ticks : u < t => tick[u].pc # "idle"
  /\ GetGoals # <<>>
  /\ tick' = [tick EXCEPT ![t] = [IdleTick EXCEPT !.pc = "loop", !.goals = GetGoals]]
  /\ UNCHANGED <<db, svc, hs, opTruthy, faulted, skipRest, aux>>

\* one iteration of the loop up to the first suspension: the dedup check and
\* the synchronous part of isCryptoGoal (memo hit, or placeholder + oracle call)
TickLoop(t) ==
  /\ tick[t].pc = "loop"
  /\ LET g == CurGoal(t)
         memo == svc.cryptoGoalCache[g]
     IN IF AlreadyProcessing(svc, g)
        THEN /\ tick' = [tick EXCEPT ![t] =
                           Advance(@)]
             /\ UNCHANGED <<svc, aux>>
        ELSE IF memo = "absent"
        THEN /\ svc' = [svc EXCEPT !.cryptoGoalCache[g] = "undefined"]
             /\ tick' = [tick EXCEPT ![t].pc = "classify"]
        ELSE IF memo = "true"
        THEN EnterHandler(t, svc)
        ELSE /\ tick' = [tick EXCEPT ![t] =
                           Advance(@)]
             /\ UNCHANGED <<svc, aux>>
  /\ UNCHANGED <<db, hs, opTruthy, faulted, skipRest, aux>>

\* the oracle of isCryptoGoal answers: memoize, then `if (!isCrypto) continue`
\* or enter the try block
TickClassified(t) ==
  /\ tick[t].pc = "classify"
  /\ \E verdict \in {"true", "false"} :
       LET g == CurGoal(t)
           s == [svc EXCEPT !.cryptoGoalCache[g] = verdict]
       IN IF verdict = "true"
          THEN /\ EnterHandler(t, s)
               /\ UNCHANGED faulted
          ELSE /\ svc' = s
               /\ tick' = [tick EXCEPT ![t] = Advance(@)]
               /\ faulted' = faulted \cup {g}
  /\ UNCHANGED <<db, hs, opTruthy, skipRest, aux>>

\* the oracle of isCryptoGoal throws: the call is outside the try block, so
\* processGoals rejects and the placeholder stays in the memo
TickClassifyThrows(t) ==
  /\ tick[t].pc = "classify"
  /\ tick' = [tick EXCEPT ![t] = IdleTick]
  /\ faulted' = faulted \cup {CurGoal(t)}
  /\ UNCHANGED <<db, svc, hs, opTruthy, skipRest, aux>>

\* ------------------------------------------------------- retryWithBackoff
Backoff_FromSecondPower(currentAttempt) == RETRY_DELAY_MS * (2 ^ (currentAttempt + 1))

\* setTimeout(resolve, CONSTANTS.RETRY_DELAY_MS * Math.pow(2, options.currentAttempt))
Backoff(currentAttempt) == RETRY_DELAY_MS * (2 ^ currentAttempt)

RetriesExhausted_OneEarly(currentAttempt) == currentAttempt + 1 >= MAX_RETRIES

\* `if (options.currentAttempt >= options.maxRetries)` of retryWithBackoff
RetriesExhausted(currentAttempt) == currentAttempt >= MAX_RETRIES

\* ---------------------------------------------------------- signer routing
\* EVMSignatureHandler.supportsChain: !proposal.transaction?.serializedTransaction
EVMSupportsChain(p) == p.transaction # "serialized"

\* SolanaSignatureHandler.supportsChain: 'serializedTransaction' in proposal.transaction
\* (the `in` operator throws a TypeError on an undefined right operand)
SolanaSupportsChain(p) ==
  IF p.transaction = "absent" THEN "TypeError"
  ELSE IF p.transaction \in {"serialized", "emptySerialized"} THEN "true"
  ELSE "false"

\* getSignatureHandler: signatureHandlers.find(h => h.supportsChain(proposal)),
\* over [evmHandler, solanaHandler]; "raise" = `No signature handler found for chain`
GetSignatureHandler(p) ==
  IF EVMSupportsChain(p) THEN "evm"
  ELSE IF SolanaSupportsChain(p) = "TypeError" THEN "TypeError"
  ELSE IF SolanaSupportsChain(p) = "true" THEN "solana"
  ELSE "raise"

\* EVMSignatureHandler.signProposal: [] without broadcasting when the proposal
\* has no transactions, else the hashes or the failure of processTransaction
EVMSignProposal(p, chain) ==
  IF chain = "noAccount" THEN "throw"
  ELSE IF ~p.transactions THEN "empty"
  ELSE chain

\* SolanaSignatureHandler.signProposal: refuses a `transactions` array, else
\* the signature (or the simulation sentinel) or the failure of the network
SolanaSignProposal(p, chain) ==
  IF chain = "noAccount" \/ p.transactions THEN "throw" ELSE chain

\* signProposal of the goal handlers: route, then sign; chain is what the
\* signer's environment does: "noAccount" (signer not initialised), "throw"
\* (the broadcast fails) or "hash"
SignProposal(p, chain) ==
  LET to == GetSignatureHandler(p)
  IN CASE to = "evm" -> EVMSignProposal(p, chain)
       [] to = "solana" -> SolanaSignProposal(p, chain)
       [] OTHER -> "throw"

\* ------------------------------------------------------------- validators
\* validateIntroResponse / validateOperationResponse return { isValid, reason }
ValidationResult(verdict) == [isValid |-> verdict]

\* `if (isIntroductionValid)`, `if (!isValidIntent)`: JavaScript truthiness of
\* the value the validator returned, which is an object
IsTruthy(validation) == validation \in [isValid : BOOLEAN]

\* --------------------------------------------------- objective bookkeeping
CompleteObjective_AndNext(objs, oid) ==
  LET i == FindObjective(objs, oid)
  IN IF i = 0 THEN objs
     ELSE [k \in DOMAIN objs |->
             IF k \in {i, i + 1} THEN [objs[k] EXCEPT !.completed = TRUE] ELSE objs[k]]

\* BaseGoalHandler.completeObjective on the handler's goal object
CompleteObjective(objs, oid) ==
  LET i == FindObjective(objs, oid)
  IN IF i = 0 THEN objs ELSE [objs EXCEPT ![i].completed = TRUE]

AbortObjective_LeavesPending(objs, oid) == objs

\* `objective.status = ObjectiveStatus.ABORTED` of the `if (!result)` paths
AbortObjective(objs, oid) ==
  LET i == FindObjective(objs, oid)
  IN IF i = 0 THEN objs ELSE [objs EXCEPT ![i].status = "aborted"]

\* MultiChainGoalHandler.handleOperation, skip branch: every objective that
\* is not completed is marked completed
CompleteRemaining(objs) == [i \in 1..Len(objs) |-> [objs[i] EXCEPT !.completed = TRUE]]

\* getObjectiveStatus of the goal handlers
GetObjectiveStatus(objs, oid) ==
  LET i == FindObjective(objs, oid)
  IN IF i = 0 THEN "pending"
     ELSE IF objs[i].completed THEN "completed"
     ELSE IF objs[i].status = "aborted" THEN "aborted"
     ELSE "pending"

\* ------------------------------------------- one attempt of an operation
\* The outcome of one attempt of a retry-wrapped operation: whether it threw,
\* the value it returned, the goal object and working response it leaves,
\* whether it wrote the goal (updateGoal) and its status (completeGoal), and
\* what it did with the signers, and the verdict ("valid" / "invalid") of the
\* reply validator when the operation consulted one.
Threw(objs, resp) ==
  [threw |-> TRUE, result |-> "none", objs |-> objs, resp |-> resp,
   persisted |-> FALSE, done |-> FALSE, sign |-> "none", to |-> "none",
   proposal |-> NoProposal, happy |-> FALSE, skip |-> FALSE, verdict |-> "none"]

Returned(result, objs, resp, persisted, done, happy) ==
  [threw |-> FALSE, result |-> result, objs |-> objs, resp |-> resp,
   persisted |-> persisted, done |-> done, sign |-> "none", to |-> "none",
   proposal |-> NoProposal, happy |-> happy, skip |-> FALSE, verdict |-> "none"]

\* handleIntroduction of SingleChainGoalHandler and MultiChainGoalHandler:
\* reply = "throw" (generateText or sendMessage failed) or the verdict of the
\* introduction validator on the reply
IntroductionOp(objs, resp, reply) ==
  IF reply = "throw" THEN Threw(objs, resp)
  ELSE IF IsTruthy(ValidationResult(reply = "valid"))
  THEN [Returned("true", CompleteObjective(objs, "introduce-agent"), resp, TRUE,
                 FALSE, reply = "valid")
          EXCEPT !.verdict = reply]
  ELSE [Threw(objs, resp) EXCEPT !.verdict = reply]

IntroductionReplies == {"throw", "valid", "invalid"}

\* the operation of handleOperation (single-chain, CDP), handleBridgeOperation
\* and handleDepositOperation: reply = "throw", "noMessage" (single-chain:
\* generateOperationMessage gave nothing), "noAmount" (bridge, deposit: no
\* token amount extracted), "noIntent", or an intent with the validator's verdict
OperationOp(objs, resp, oid, reply) ==
  IF reply \in {"throw", "noAmount", "noIntent"} THEN Threw(objs, resp)
  ELSE IF reply = "noMessage" THEN Returned("false", objs, resp, FALSE, FALSE, FALSE)
  ELSE IF ~IsTruthy(ValidationResult(reply = "validIntent"))
  THEN [Threw(objs, resp) EXCEPT !.verdict = "invalid"]
  ELSE [Returned("true", CompleteObjective(objs, oid), IntentResponse, TRUE, FALSE,
                 reply = "validIntent")
          EXCEPT !.verdict = IF reply = "validIntent" THEN "valid" ELSE "invalid"]

SingleOperationReplies == {"throw", "noMessage", "noIntent", "validIntent", "invalidIntent"}

CDPOperationReplies == {"throw", "noIntent", "validIntent", "invalidIntent"}

BridgeOperationReplies == {"throw", "noAmount", "noIntent", "validIntent", "invalidIntent"}

\* MultiChainGoalHandler.handleOperation: a reply with an intent completes
\* present-operation; without one the text reply is stored and the skip oracle
\* decides between completing everything and completing present-operation
MultiOperationOp(objs, resp, reply) ==
  CASE reply = "throw" -> Threw(objs, resp)
    [] reply = "noMessage" -> Returned("false", objs, resp, FALSE, FALSE, FALSE)
    [] reply = "intent" ->
         Returned("true", CompleteObjective(objs, "present-operation"), IntentResponse,
                  TRUE, FALSE, TRUE)
    [] reply = "textSkipThrows" -> Threw(objs, TextResponse)
    [] reply = "textSkip" ->
         [Returned("true", CompleteRemaining(objs), TextResponse, TRUE, FALSE, FALSE)
            EXCEPT !.skip = TRUE]
    [] reply = "textContinue" ->
         Returned("true", CompleteObjective(objs, "present-operation"), TextResponse,
                  TRUE, FALSE, FALSE)

MultiOperationReplies ==
  {"throw", "noMessage", "intent", "textSkipThrows", "textSkip", "textContinue"}

\* the operation of handleIntent: reply = "throw", "none" (no reply carries
\* proposals) or the proposals of the first reply that carries some.
\* nonEmptyOnly: single-chain and multi-chain require a non-empty array, CDP
\* takes any value of `proposals` that is truthy
IntentOp(objs, resp, oid, reply, nonEmptyOnly) ==
  IF reply.kind # "proposals" THEN Threw(objs, resp)
  ELSE IF nonEmptyOnly /\ reply.proposals = <<>> THEN Threw(objs, resp)
  ELSE Returned("true", CompleteObjective(objs, oid), ProposalResponse(reply.proposals),
                TRUE, FALSE, Len(reply.proposals) = 1)

IntentReplies ==
  {[kind |-> "throw", proposals |-> <<>>], [kind |-> "none", proposals |-> <<>>],
   [kind |-> "proposals", proposals |-> <<>>]}
  \cup {[kind |-> "proposals", proposals |-> <<p>>] : p \in ProposalShapes}

CDPIntentReplies ==
  {[kind |-> "throw", proposals |-> <<>>], [kind |-> "none", proposals |-> <<>>],
   [kind |-> "proposals", proposals |-> <<>>],
   [kind |-> "proposals", proposals |-> <<[transaction |-> "absent", transactions |-> TRUE]>>]}

ProposalOp_SignsEVMDefault(objs, resp, oid, chain, completesGoal) ==
  IF resp.proposals = <<>> THEN Threw(objs, resp)
  ELSE LET p == [transaction |-> "absent", transactions |-> TRUE]
           signed == SignProposal(p, chain)
       IN IF signed = "throw"
          THEN [Threw(objs, resp) EXCEPT !.sign = "throw", !.proposal = p,
                                         !.to = GetSignatureHandler(p)]
          ELSE [Returned("true", CompleteObjective(objs, oid),
                         IF completesGoal THEN NoResponse ELSE resp,
                         TRUE, completesGoal, signed = "hash")
                  EXCEPT !.sign = signed, !.proposal = p,
                         !.to = GetSignatureHandler(p)]

\* the operation of handleProposal: sign the first stored proposal, complete
\* the objective and, in the single-chain handler only, complete the goal
ProposalOp(objs, resp, oid, chain, completesGoal) ==
  IF resp.proposals = <<>> THEN Threw(objs, resp)
  ELSE LET p == resp.proposals[1]
           signed == SignProposal(p, chain)
       IN IF signed = "throw"
          THEN [Threw(objs, resp) EXCEPT !.sign = "throw", !.proposal = p,
                                         !.to = GetSignatureHandler(p)]
          ELSE [Returned("true", CompleteObjective(objs, oid),
                         IF completesGoal THEN NoResponse ELSE resp,
                         TRUE, completesGoal, signed = "hash")
                  EXCEPT !.sign = signed, !.proposal = p,
                         !.to = GetSignatureHandler(p)]

ChainOutcomes == {"hash", "throw", "noAccount"}

\* CDPGoalHandler.handleAskForWallet: the reply holds an EVM address or not
AskForWalletOp(objs, resp, reply) ==
  IF reply = "address"
  THEN Returned("true", CompleteObjective(objs, "ask-for-wallet"), resp, TRUE, FALSE, TRUE)
  ELSE Threw(objs, resp)

AskForWalletReplies == {"throw", "address", "noAddress"}

\* CDPGoalHandler.handleConfirmProposal: ask for proposals when none is
\* stored, confirm proposal number 1, store the last meaningful reply, and
\* complete the objective and the goal when a reply reports success
ConfirmProposalOp(objs, resp, reply) ==
  LET asked == IF resp.hasProposals THEN resp ELSE ProposalResponse(<<>>)
  IN CASE reply = "throw" -> Threw(objs, resp)
       [] reply = "askedNone" -> Threw(objs, resp)
       [] reply = "confirmThrows" -> Threw(objs, asked)
       [] reply = "noSuccess" -> Threw(objs, asked)
       [] reply = "noSuccessProposals" -> Threw(objs, ProposalResponse(<<>>))
       [] reply = "success" ->
            Returned("true", CompleteObjective(objs, "confirm-proposal"), NoResponse,
                     TRUE, TRUE, TRUE)

ConfirmProposalReplies(resp) ==
  {"throw", "confirmThrows", "noSuccess", "noSuccessProposals", "success"}
  \cup (IF resp.hasProposals THEN {} ELSE {"askedNone"})

\* MultiChainGoalHandler.handleBridgeConfirmation, one run of the polling
\* loop: a positive balance is seen, or the wait times out, or a query throws
BridgeConfirmationOp(objs, resp, outcome) ==
  IF outcome = "balance"
  THEN Returned("true", CompleteObjective(objs, "wait-for-chain-b-confirmation"), resp,
                TRUE, FALSE, TRUE)
  ELSE Threw(objs, resp)

BridgePolls == {"throw", "timeout", "balance"}

\* -------------------------------------------------- processObjective steps
IntentStep_AlwaysReturns(resp) == "return"

\* handleIntent before its retry: `if (!storedResponse?.intent) return`, then
\* generateText
IntentStep(resp) == IF resp.present /\ resp.intent THEN "genText" ELSE "return"

\* handleProposal before its retry: `if (!storedResponse?.proposals) return`
ProposalStep(resp) == IF resp.present /\ resp.hasProposals THEN "retry" ELSE "return"

\* What the handler of an objective does before its retry-wrapped operation:
\* "retry" (nothing), "genText" (a generateText call outside the wrapper),
\* "return" (the stored reply lacks what the step needs), "unknown" (the
\* default branch of the switch)
PreStep(h, oid, resp) ==
  CASE h = "single" ->
         (CASE oid \in {"introduce-agent", "present-operation"} -> "retry"
            [] oid = "confirm-intent" -> IntentStep(resp)
            [] oid = "process-proposal" -> ProposalStep(resp)
            [] OTHER -> "unknown")
    [] h = "cdp" ->
         (CASE oid \in {"ask-for-wallet", "confirm-proposal"} -> "retry"
            [] oid = "present-operation" -> "genText"
            [] oid = "confirm-intent" -> IntentStep(resp)
            [] OTHER -> "unknown")
    [] h = "multi" ->
         (CASE oid \in {"introduce-agent", "present-operation",
                        "present-bridge-operation-chain-a",
                        "wait-for-chain-b-confirmation",
                        "present-deposit-operation-chain-b"} -> "retry"
            [] oid \in {"confirm-intent", "confirm-intent-bridge-chain-a",
                        "confirm-intent-deposit-chain-b"} -> IntentStep(resp)
            [] oid \in {"process-proposal", "process-proposal-bridge-chain-a",
                        "process-proposal-deposit-chain-b"} -> ProposalStep(resp)
            [] OTHER -> "unknown")

StartRetry(tk, oid) ==
  [IdleTick EXCEPT !.pc = "retry", !.goals = tk.goals, !.h = tk.h, !.obj = oid]

\* BaseGoalHandler.completeGoal / failGoal: drop the working response, write the status
SetGoalStatus(t, status) ==
  /\ hs' = [hs EXCEPT ![tick[t].h].goalResponses[CurGoal(t)] = NoResponse]
  /\ db' = [db EXCEPT ![CurGoal(t)].status = status]

\* processObjective (entered from the tick, or recursively after a completed
\* objective): complete the goal when nothing is pending, else dispatch on the
\* first pending objective up to its first suspension
ProcessObjective(t) ==
  /\ tick[t].pc = "process"
  /\ LET objs == CurObjs(t)
         i == PendingIndex(objs)
         resp == hs[tick[t].h].goalResponses[CurGoal(t)]
     IN IF i = 0
        THEN /\ SetGoalStatus(t, "DONE")
             /\ tick' = [tick EXCEPT ![t] = Advance(@)]
        ELSE /\ UNCHANGED <<db, hs>>
             /\ LET pre == PreStep(tick[t].h, objs[i].id, resp)
                IN tick' = [tick EXCEPT ![t] =
                     CASE pre = "retry" -> StartRetry(tick[t], objs[i].id)
                       [] pre = "genText" ->
                            [IdleTick EXCEPT !.pc = "genText", !.goals = tick[t].goals,
                                             !.h = tick[t].h, !.obj = objs[i].id]
                       [] OTHER -> Advance(@)]
  /\ UNCHANGED <<svc, opTruthy, faulted, skipRest, aux>>

\* generateText (handleIntent) / generateOperationMessage (CDP handleOperation)
\* outside the retry wrapper returns a message
GenTextOk(t) ==
  /\ tick[t].pc = "genText"
  /\ tick' = [tick EXCEPT ![t] = StartRetry(tick[t], tick[t].obj)]
  /\ UNCHANGED <<db, svc, hs, opTruthy, faulted, skipRest, aux>>

\* ... or throws: the exception reaches the catch of processObjective
GenTextThrows(t) ==
  /\ tick[t].pc = "genText"
  /\ tick' = [tick EXCEPT ![t].pc = "catch"]
  /\ faulted' = faulted \cup {CurGoal(t)}
  /\ UNCHANGED <<db, svc, hs, opTruthy, skipRest, aux>>

\* ... or, in CDP handleOperation, returns nothing: `if (!operationMessage) return`
GenTextEmpty(t) ==
  /\ tick[t].pc = "genText"
  /\ tick[t].h = "cdp"
  /\ tick[t].obj = "present-operation"
  /\ tick' = [tick EXCEPT ![t] = Advance(@)]
  /\ faulted' = faulted \cup {CurGoal(t)}
  /\ UNCHANGED <<db, svc, hs, opTruthy, skipRest, aux>>

\* retryWithBackoff, one pass of its body around the attempt e of the
\* operation: a returned value is returned at once, an exception is caught,
\* the delay is awaited and the function recurses with currentAttempt + 1
ApplyAttempt(t, e) ==
  LET tk == tick[t]
      g == CurGoal(t)
  IN /\ tick' = [tick EXCEPT ![t] =
                   IF e.threw
                   THEN [tk EXCEPT !.goals[1].objs = e.objs,
                                   !.attempt = tk.attempt + 1,
                                   !.outs = Append(tk.outs, "throw"),
                                   !.waits = Append(tk.waits, Backoff(tk.attempt)),
                                   !.sign = e.sign, !.to = e.to,
                                   !.proposal = e.proposal, !.verdict = e.verdict]
                   ELSE [tk EXCEPT !.goals[1].objs = e.objs,
                                   !.outs = Append(tk.outs, e.result),
                                   !.res = e.result,
                                   !.pc = "afterRetry",
                                   !.sign = e.sign, !.to = e.to,
                                   !.proposal = e.proposal, !.verdict = e.verdict]]
     /\ db' = [db EXCEPT ![g] =
                 [status |-> IF e.done THEN "DONE" ELSE db[g].status,
                  objs |-> IF e.persisted THEN e.objs ELSE db[g].objs]]
     /\ hs' = [hs EXCEPT ![tk.h].goalResponses[g] = e.resp]
     /\ opTruthy' = IF ~e.threw /\ e.result = "true"
                    THEN [opTruthy EXCEPT ![g] = @ \cup {tk.obj}]
                    ELSE opTruthy
     /\ faulted' = IF e.happy THEN faulted ELSE faulted \cup {g}
     /\ skipRest' = IF e.skip THEN skipRest \cup {g} ELSE skipRest
     /\ UNCHANGED <<svc, aux>>

InRetry(t, h, oids) ==
  /\ tick[t].pc = "retry"
  /\ ~RetriesExhausted(tick[t].attempt)
  /\ tick[t].h = h
  /\ tick[t].obj \in oids

StoredResponse(t) == hs[tick[t].h].goalResponses[CurGoal(t)]

SingleHandleIntroduction(t) ==
  /\ InRetry(t, "single", {"introduce-agent"})
  /\ \E reply \in IntroductionReplies :
       ApplyAttempt(t, IntroductionOp(CurObjs(t), StoredResponse(t), reply))

SingleHandleOperation(t) ==
  /\ InRetry(t, "single", {"present-operation"})
  /\ \E reply \in SingleOperationReplies :
       ApplyAttempt(t, OperationOp(CurObjs(t), StoredResponse(t), tick[t].obj, reply))

SingleHandleIntent(t) ==
  /\ InRetry(t, "single", {"confirm-intent"})
  /\ \E reply \in IntentReplies :
       ApplyAttempt(t, IntentOp(CurObjs(t), StoredResponse(t), tick[t].obj, reply, TRUE))

SingleHandleProposal(t) ==
  /\ InRetry(t, "single", {"process-proposal"})
  /\ \E chain \in ChainOutcomes :
       ApplyAttempt(t, ProposalOp(CurObjs(t), StoredResponse(t), tick[t].obj, chain, TRUE))

CDPHandleAskForWallet(t) ==
  /\ InRetry(t, "cdp", {"ask-for-wallet"})
  /\ \E reply \in AskForWalletReplies :
       ApplyAttempt(t, AskForWalletOp(CurObjs(t), StoredResponse(t), reply))

CDPHandleOperation(t) ==
  /\ InRetry(t, "cdp", {"present-operation"})
  /\ \E reply \in CDPOperationReplies :
       ApplyAttempt(t, OperationOp(CurObjs(t), StoredResponse(t), tick[t].obj, reply))

CDPHandleIntent(t) ==
  /\ InRetry(t, "cdp", {"confirm-intent"})
  /\ \E reply \in CDPIntentReplies :
       ApplyAttempt(t, IntentOp(CurObjs(t), StoredResponse(t), tick[t].obj, reply, FALSE))

CDPHandleConfirmProposal(t) ==
  /\ InRetry(t, "cdp", {"confirm-proposal"})
  /\ \E reply \in ConfirmProposalReplies(StoredResponse(t)) :
       ApplyAttempt(t, ConfirmProposalOp(CurObjs(t), StoredResponse(t), reply))

MultiHandleIntroduction(t) ==
  /\ InRetry(t, "multi", {"introduce-agent"})
  /\ \E reply \in IntroductionReplies :
       ApplyAttempt(t, IntroductionOp(CurObjs(t), StoredResponse(t), reply))

MultiHandleOperation(t) ==
  /\ InRetry(t, "multi", {"present-operation"})
  /\ \E reply \in MultiOperationReplies :
       ApplyAttempt(t, MultiOperationOp(CurObjs(t), StoredResponse(t), reply))

MultiHandleBridgeOperation(t) ==
  /\ InRetry(t, "multi", {"present-bridge-operation-chain-a"})
  /\ \E reply \in BridgeOperationReplies :
       ApplyAttempt(t, OperationOp(CurObjs(t), StoredResponse(t), tick[t].obj, reply))

MultiHandleDepositOperation(t) ==
  /\ InRetry(t, "multi", {"present-deposit-operation-chain-b"})
  /\ \E reply \in BridgeOperationReplies :
       ApplyAttempt(t, OperationOp(CurObjs(t), StoredResponse(t), tick[t].obj, reply))

MultiHandleIntent(t) ==
  /\ InRetry(t, "multi", {"confirm-intent", "confirm-intent-bridge-chain-a",
                          "confirm-intent-deposit-chain-b"})
  /\ \E reply \in IntentReplies :
       ApplyAttempt(t, IntentOp(CurObjs(t), StoredResponse(t), tick[t].obj, reply, TRUE))

MultiHandleProposal(t) ==
  /\ InRetry(t, "multi", {"process-proposal", "process-proposal-bridge-chain-a",
                          "process-proposal-deposit-chain-b"})
  /\ \E chain \in ChainOutcomes :
       ApplyAttempt(t, ProposalOp(CurObjs(t), StoredResponse(t), tick[t].obj, chain, FALSE))

MultiHandleBridgeConfirmation(t) ==
  /\ InRetry(t, "multi", {"wait-for-chain-b-confirmation"})
  /\ \E outcome \in BridgePolls :
       ApplyAttempt(t, BridgeConfirmationOp(CurObjs(t), StoredResponse(t), outcome))

\* retryWithBackoff entered with currentAttempt >= maxRetries: returns null
RetryExhausted(t) ==
  /\ tick[t].pc = "retry"
  /\ RetriesExhausted(tick[t].attempt)
  /\ tick' = [tick EXCEPT ![t].res = "null", ![t].pc = "afterRetry"]
  /\ UNCHANGED <<db, svc, hs, opTruthy, faulted, skipRest, aux>>

\* after `const result = await this.retryWithBackoff(...)`: the `if (!result)`
\* abort path, then getObjectiveStatus and the recursion of processObjective
AfterRetry(t) ==
  /\ tick[t].pc = "afterRetry"
  /\ LET tk == tick[t]
         g == CurGoal(t)
         objs == IF tk.res = "true" THEN CurObjs(t) ELSE AbortObjective(CurObjs(t), tk.obj)
         tk2 == [tk EXCEPT !.goals[1].objs = objs]
     IN /\ db' = IF tk.res = "true" \/ FindObjective(CurObjs(t), tk.obj) = 0
                 THEN db ELSE [db EXCEPT ![g].objs = objs]
        /\ tick' = [tick EXCEPT ![t] =
                      IF GetObjectiveStatus(objs, tk.obj) = "completed" /\ PendingIndex(objs) # 0
                      THEN [IdleTick EXCEPT !.pc = "process", !.goals = tk2.goals,
                                            !.h = tk.h]
                      ELSE Advance(tk2)]
  /\ UNCHANGED <<svc, hs, opTruthy, faulted, skipRest, aux>>

\* the catch of processObjective: failGoal, then rethrow
HandlerCatch(t) ==
  /\ tick[t].pc = "catch"
  /\ SetGoalStatus(t, "FAILED")
  /\ tick' = [tick EXCEPT ![t].pc = "rethrown"]
  /\ UNCHANGED <<svc, opTruthy, faulted, skipRest, aux>>

ClearProcessingState_KeepsMemo(s, g) ==
  [processingGoals |-> s.processingGoals \ {g},
   goalResponses |-> [s.goalResponses EXCEPT ![g] = NoResponse],
   cryptoGoalCache |-> s.cryptoGoalCache]

\* ChromaService.clearProcessingState
ClearProcessingState(s, g) ==
  [processingGoals |-> s.processingGoals \ {g},
   goalResponses |-> [s.goalResponses EXCEPT ![g] = NoResponse],
   cryptoGoalCache |-> [s.cryptoGoalCache EXCEPT ![g] = "absent"]]

\* BaseGoalHandler.clearState
ClearState(s, g) ==
  [processingGoals |-> s.processingGoals \ {g},
   goalResponses |-> [s.goalResponses EXCEPT ![g] = NoResponse],
   cryptoGoalCache |-> [s.cryptoGoalCache EXCEPT ![g] = "absent"]]

\* the catch of processGoals: clear the goal's state in the service and in
\* every registered handler, then go on with the next goal
OrchestratorCatch(t) ==
  /\ tick[t].pc = "rethrown"
  /\ svc' = ClearProcessingState(svc, CurGoal(t))
  /\ hs' = [h \in HandlerNames |-> ClearState(hs[h], CurGoal(t))]
  /\ tick' = [tick EXCEPT ![t] = Advance(@)]
  /\ UNCHANGED <<db, opTruthy, faulted, skipRest, aux>>

TickStep(t) ==
  \/ TickLoop(t)
  \/ TickClassified(t)
  \/ TickClassifyThrows(t)
  \/ ProcessObjective(t)
  \/ GenTextOk(t)
  \/ GenTextThrows(t)
  \/ GenTextEmpty(t)
  \/ SingleHandleIntroduction(t)
  \/ SingleHandleOperation(t)
  \/ SingleHandleIntent(t)
  \/ SingleHandleProposal(t)
  \/ CDPHandleAskForWallet(t)
  \/ CDPHandleOperation(t)
  \/ CDPHandleIntent(t)
  \/ CDPHandleConfirmProposal(t)
  \/ MultiHandleIntroduction(t)
  \/ MultiHandleOperation(t)
  \/ MultiHandleBridgeOperation(t)
  \/ MultiHandleDepositOperation(t)
  \/ MultiHandleIntent(t)
  \/ MultiHandleProposal(t)
  \/ MultiHandleBridgeConfirmation(t)
  \/ RetryExhausted(t)
  \/ AfterRetry(t)
  \/ HandlerCatch(t)
  \/ OrchestratorCatch(t)

Next == \E t \in Ticks : TickStart(t) \/ TickStep(t)

Spec == Init /\ [][Next]_vars

\* The interval timer keeps firing and every awaited call (store, oracle,
\* network, timer) eventually settles: no invocation of processGoals is
\* suspended forever.
FairSpec ==
  Spec /\ \A t \in Ticks : WF_vars(TickStart(t)) /\ WF_vars(TickStep(t))

\* ===================================================================== claims
RECURSIVE SumSeq(_)
SumSeq(q) == IF q = <<>> THEN 0 ELSE Head(q) + SumSeq(Tail(q))

AllThrew(outs) == \A i \in DOMAIN outs : outs[i] = "throw"

\* the handler registered for goal g (support depends on the objective ids only)
HandlerOf(g) == GetHandlerForGoal(db[g].objs)

\* C1: at any instant at most one invocation of processGoals is inside a
\* handler's processObjective for a given goal id; a tick that reaches a goal
\* another tick is processing skips it
C1_AtMostOneInFlight ==
  \A g \in Goals : Cardinality({t \in Ticks : InFlight(t, g)}) <= 1

\* C1 witness: one tick is inside the handler for g while another tick, which
\* read g from the store as in progress, stands at g's dedup check
C1_Witness ==
  \E g \in Goals : \E t, u \in Ticks :
    /\ t # u
    /\ InFlight(t, g)
    /\ tick[u].pc = "loop"
    /\ CurGoal(u) = g

\* C2: a single-chain goal for which every reply is the accepting one (valid
\* introduction, validated intent, one proposal, a hash from the signer)
\* eventually has the persisted status DONE with all four objectives completed
C2_HappyPathReachesDone ==
  \A g \in Goals :
    HandlerOf(g) = "single"
      => <>(\/ g \in faulted
            \/ (db[g].status = "DONE" /\ AllCompleted(db[g].objs)))

\* C2 witness: a single-chain goal that met no non-accepting outcome is DONE
\* with its four objectives completed
C2_Witness ==
  \E g \in Goals :
    /\ HandlerOf(g) = "single"
    /\ g \notin faulted
    /\ db[g].status = "DONE"
    /\ AllCompleted(db[g].objs)
    /\ Len(db[g].objs) = 4

\* an objective of g marked completed, in the store or in the goal object of
\* a running tick
CompletedSomewhere(g, oid) ==
  \/ \E i \in DOMAIN db[g].objs : db[g].objs[i].id = oid /\ db[g].objs[i].completed
  \/ \E t \in Ticks : \E k \in DOMAIN tick[t].goals :
       /\ tick[t].goals[k].id = g
       /\ \E i \in DOMAIN tick[t].goals[k].objs :
            /\ tick[t].goals[k].objs[i].id = oid
            /\ tick[t].goals[k].objs[i].completed

AllObjectiveIds == UNION {{s[i] : i \in 1..Len(s)} : s \in GoalShapes}

C4_AllCompletedLeadsToDone ==
  \A g \in Goals :
    (HandlerOf(g) # "none" /\ db[g].status = "IN_PROGRESS" /\ AllCompleted(db[g].objs))
      ~> (db[g].status = "DONE")

\* C5 as stated: when the handler returns from the process-proposal step, a
\* signer that threw has left the goal FAILED and the objective not completed,
\* and a signer that returned a hash has left the objective completed and the
\* goal DONE
C5_SignerOutcomeDecidesGoal ==
  [][\A t \in Ticks :
       (/\ tick[t].pc = "afterRetry"
        /\ tick[t].h = "single"
        /\ tick[t].obj = "process-proposal"
        /\ tick'[t].pc # "afterRetry")
       => LET g == CurGoal(t)
          IN /\ tick[t].sign = "throw" =>
                  /\ db'[g].status = "FAILED"
                  /\ ~CompletedSomewhere(g, "process-proposal")'
             /\ tick[t].sign = "hash" =>
                  /\ db'[g].status = "DONE"
                  /\ GetObjectiveStatus(db'[g].objs, "process-proposal") = "completed"]_vars

\* C6 as stated: whenever a proposal has been routed, one with a
\* serializedTransaction went to the Solana signer, one with a transactions
\* array went to the EVM signer, and one with neither made routing raise
C6_RoutingByShape ==
  \A t \in Ticks :
    tick[t].sign # "none" =>
      LET p == tick[t].proposal
      IN /\ p.transaction = "serialized" => tick[t].to = "solana"
         /\ (p.transaction = "absent" /\ p.transactions) => tick[t].to = "evm"
         /\ (p.transaction = "absent" /\ ~p.transactions) => tick[t].to = "raise"

\* C7: a retry whose operation failed at every attempt has called it exactly
\* 3 times, waited 1000 ms before the 2nd call and 2000 ms before the 3rd,
\* at least 3000 ms in all, and returns null
C7_AlwaysFailingRetry ==
  \A t \in Ticks :
    (tick[t].pc = "afterRetry" /\ AllThrew(tick[t].outs)) =>
      /\ Len(tick[t].outs) = 3
      /\ tick[t].waits[1] = 1000
      /\ tick[t].waits[2] = 2000
      /\ SumSeq(tick[t].waits) >= 3000
      /\ tick[t].res = "null"

\* C7 witness: a retry has returned after its operation threw every time
C7_Witness ==
  \E t \in Ticks :
    /\ tick[t].pc = "afterRetry"
    /\ tick[t].outs # <<>>
    /\ AllThrew(tick[t].outs)

\* C8: retryWithBackoff never lets an exception of the operation escape (the
\* handler's catch is never entered from inside a retry); what it returns is
\* the result of the first attempt that did not throw, with no attempt after
\* it, and null exactly when all MAX_RETRIES attempts threw
C8_RetryReturnsFirstResult ==
  /\ [](\A t \in Ticks :
          tick[t].pc = "afterRetry" =>
            LET outs == tick[t].outs
                n == Len(outs)
            IN IF tick[t].res = "null"
               THEN n = MAX_RETRIES /\ AllThrew(outs)
               ELSE /\ n >= 1
                    /\ n <= MAX_RETRIES
                    /\ outs[n] = tick[t].res
                    /\ outs[n] # "throw"
                    /\ \A i \in 1..(n - 1) : outs[i] = "throw")
  /\ [][\A t \in Ticks :
          tick[t].pc = "retry" => tick'[t].pc \in {"retry", "afterRetry"}]_vars

\* C8 witness: a retry has returned the result of an attempt that followed
\* a failed one
C8_Witness ==
  \E t \in Ticks :
    /\ tick[t].pc = "afterRetry"
    /\ Len(tick[t].outs) >= 2
    /\ tick[t].res \in {"true", "false"}

\* C9: when processObjective has thrown for g, the orchestrator's catch
\* leaves g out of its processing set, response map and classification cache
\* and out of the per-goal state of every registered handler
C9_CatchClearsEverywhere ==
  [][\A t \in Ticks :
       (tick[t].pc = "rethrown" /\ tick'[t] # tick[t]) =>
         LET g == CurGoal(t)
         IN /\ g \notin svc'.processingGoals
            /\ svc'.goalResponses[g] = NoResponse
            /\ svc'.cryptoGoalCache[g] = "absent"
            /\ \A h \in HandlerNames :
                 /\ g \notin hs'[h].processingGoals
                 /\ hs'[h].goalResponses[g] = NoResponse
                 /\ hs'[h].cryptoGoalCache[g] = "absent"]_vars

\* C9 witness: the catch has run for a goal that had been classified and
\* entered: it failed in its handler and its memo entry is gone
C9_Witness ==
  \E g \in Goals :
    /\ db[g].status = "FAILED"
    /\ svc.cryptoGoalCache[g] = "absent"
    /\ g \notin svc.processingGoals
    /\ \A t \in Ticks : tick[t].pc # "rethrown"

\* C10 as stated: when processObjective has thrown for a goal, its persisted
\* status is still IN_PROGRESS
C10_ThrowLeavesStatusUntouched ==
  \A t \in Ticks :
    tick[t].pc = "rethrown" => db[CurGoal(t)].status = "IN_PROGRESS"

\* the first incomplete objective of g in the store is marked aborted
FirstPendingAborted(g) ==
  LET i == PendingIndex(db[g].objs)
  IN i # 0 /\ db[g].objs[i].status = "aborted"

\* C11 as stated: a tick that reaches a goal that is IN_PROGRESS, whose first
\* incomplete objective is marked aborted and which no tick is processing,
\* dispatches the goal to its handler again
C11_AbortedIsRetriedNextTick ==
  [][\A t \in Ticks :
       (/\ tick[t].pc = "loop"
        /\ tick'[t] # tick[t]
        /\ HandlerOf(CurGoal(t)) # "none"
        /\ db[CurGoal(t)].status = "IN_PROGRESS"
        /\ FirstPendingAborted(CurGoal(t))
        /\ svc.cryptoGoalCache[CurGoal(t)] = "true"
        /\ \A u \in Ticks : tick[u].pc \in HandlerPcs \cup {"rethrown"} => CurGoal(u) # CurGoal(t))
       => tick'[t].pc = "process"]_vars

\* every objective of objs other than introduce-agent has completed=false
ResetExceptIntroduction(objs) ==
  \A i \in DOMAIN objs : objs[i].id # "introduce-agent" => ~objs[i].completed

\* C12 as stated: when the confirm-intent exchange of a single-chain goal has
\* ended without a proposal, the handler leaves every objective except
\* introduce-agent with completed=false in the store and goes on with
\* present-operation
C12_NoProposalResetsObjectives ==
  [][\A t \in Ticks :
       (/\ tick[t].pc = "afterRetry"
        /\ tick[t].h = "single"
        /\ tick[t].obj = "confirm-intent"
        /\ tick[t].res = "null"
        /\ tick'[t] # tick[t])
       => /\ ResetExceptIntroduction(db'[CurGoal(t)].objs)
          /\ tick'[t].pc = "process"
          /\ CurObjs(t)'[PendingIndex(CurObjs(t)')].id = "present-operation"]_vars

\* ------------------------------------------------ bridge confirmation poll
\* MultiChainGoalHandler.MAX_BRIDGE_WAIT_TIME_MS = 40 * 60 * 1000
MAX_BRIDGE_WAIT_TIME_MS == 40 * 60 * 1000

\* MultiChainGoalHandler.BRIDGE_INITIAL_CHECK_INTERVAL_MS = 10 * 1000
BRIDGE_INITIAL_CHECK_INTERVAL_MS == 10 * 1000

\* the literal of `Math.min(checkInterval * 2, 60000)`
BRIDGE_MAX_CHECK_INTERVAL_MS == 60000

Min(a, b) == IF a <= b THEN a ELSE b

NextCheckInterval_NoCap(checkInterval) == checkInterval * 2

\* checkInterval = Math.min(checkInterval * 2, 60000)
NextCheckInterval(checkInterval) == Min(checkInterval * 2, BRIDGE_MAX_CHECK_INTERVAL_MS)

\* time a balance query (sendMessage and extractTokenAmounts) takes
PollLatencies == {0, MaxLatencyMs}

\* what a balance query yields: no USDC, a positive amount whose
\* completeObjective persists, a positive amount whose completeObjective
\* throws after it set objective.completed and hasBalance, or a throw of
\* sendMessage / extractTokenAmounts
PollReads == {"zero", "positive", "positiveNoPersist", "throw"}

WithinBridgeWait_TwiceAsLong(now) == now < 2 * MAX_BRIDGE_WAIT_TIME_MS

\* the while condition `Date.now() - startTime < this.MAX_BRIDGE_WAIT_TIME_MS`
WithinBridgeWait(now) == now < MAX_BRIDGE_WAIT_TIME_MS

\* handleBridgeConfirmation up to the first evaluation of the while condition:
\* startTime = Date.now(), checkInterval = BRIDGE_INITIAL_CHECK_INTERVAL_MS
PollStart ==
  /\ poll.pc = "idle"
  /\ poll' = [poll EXCEPT !.pc = "test", !.checkInterval = BRIDGE_INITIAL_CHECK_INTERVAL_MS]
  /\ UNCHANGED <<orch, timer, cg, bc, ext>>

\* one iteration of the while loop up to its sleep: the balance query, and on a
\* positive amount completeObjective and `return true`
PollQuery ==
  /\ poll.pc = "test"
  /\ WithinBridgeWait(poll.now)
  /\ \E latency \in PollLatencies, read \in PollReads :
       poll' = CASE read = "zero" ->
                      [poll EXCEPT !.lastQueryAt = poll.now, !.now = @ + latency,
                                   !.zeros = @ + 1, !.pc = "sleep"]
                 [] read = "positive" ->
                      [poll EXCEPT !.lastQueryAt = poll.now, !.now = @ + latency,
                                   !.hasBalance = TRUE, !.completed = TRUE,
                                   !.result = "true", !.pc = "done"]
                 [] read = "positiveNoPersist" ->
                      [poll EXCEPT !.lastQueryAt = poll.now, !.now = @ + latency,
                                   !.hasBalance = TRUE, !.completed = TRUE,
                                   !.pc = "backoff"]
                 [] OTHER ->
                      [poll EXCEPT !.lastQueryAt = poll.now, !.now = @ + latency,
                                   !.pc = "backoff"]
  /\ UNCHANGED <<orch, timer, cg, bc, ext>>

\* the while condition fails: `throw new Error('Bridge confirmation timed out')`
\* unless an earlier attempt set hasBalance, and then `return true`
PollTimeout ==
  /\ poll.pc = "test"
  /\ ~WithinBridgeWait(poll.now)
  /\ poll' = IF poll.hasBalance
             THEN [poll EXCEPT !.result = "true", !.pc = "done"]
             ELSE [poll EXCEPT !.pc = "backoff"]
  /\ UNCHANGED <<orch, timer, cg, bc, ext>>

\* setTimeout(resolve, checkInterval), then the interval is doubled and capped
PollSleep ==
  /\ poll.pc = "sleep"
  /\ poll' = [poll EXCEPT !.now = @ + poll.checkInterval,
                          !.waits = Append(@, poll.checkInterval),
                          !.checkInterval = NextCheckInterval(@),
                          !.pc = "test"]
  /\ UNCHANGED <<orch, timer, cg, bc, ext>>

\* the catch of retryWithBackoff around the loop: null once the retries are
\* used up (the objective is then ABORTED), else the delay and the loop again
\* with startTime and checkInterval as the previous run left them
PollBackoff ==
  /\ poll.pc = "backoff"
  /\ poll' = IF RetriesExhausted(poll.attempt)
             THEN [poll EXCEPT !.result = "null", !.aborted = TRUE, !.pc = "done"]
             ELSE [poll EXCEPT !.now = @ + Backoff(poll.attempt),
                               !.attempt = @ + 1, !.pc = "test"]
  /\ UNCHANGED <<orch, timer, cg, bc, ext>>

PollNext == PollStart \/ PollQuery \/ PollTimeout \/ PollSleep \/ PollBackoff

PollSpec == Init /\ [][PollNext]_vars

\* C13: in the bridge poll the i-th wait between balance queries is
\* min(10 s * 2^(i-1), 60 s), so 10 s, 20 s, 40 s and 60 s from then on; a poll
\* that read zero three times and then a positive balance has completed
\* wait-for-chain-b-confirmation after exactly the waits 10 s, 20 s, 40 s
C13_PollWaitsDoubleToCap ==
  /\ \A i \in DOMAIN poll.waits :
       poll.waits[i] = IF i = 1 THEN 10000 ELSE IF i = 2 THEN 20000
                       ELSE IF i = 3 THEN 40000 ELSE 60000
  /\ (poll.result = "true" /\ poll.zeros = 3)
       => (poll.completed /\ poll.waits = <<10000, 20000, 40000>>)

\* C13 witness: a poll returned true on its fourth query, without a retry
C13_Witness ==
  /\ poll.result = "true" /\ poll.zeros = 3 /\ poll.attempt = 0
  /\ poll.completed /\ Len(poll.waits) = 3

\* no in-memory entry for g in one GoalState (processingGoals, goalResponses,
\* cryptoGoalCache)
GoalAbsent(s, g) ==
  /\ g \notin s.processingGoals
  /\ s.goalResponses[g] = NoResponse
  /\ s.cryptoGoalCache[g] = "absent"

\* C14 as stated: once a goal is DONE or FAILED and the tick that finished it
\* has ended, its id is in no processing set, response map or classification
\* cache of the orchestrator or of any handler
C14_NoEntryAfterCompletion ==
  \A g \in Goals :
    (db[g].status \in {"DONE", "FAILED"} /\ \A t \in Ticks : tick[t].pc = "idle")
      => (GoalAbsent(svc, g) /\ \A h \in HandlerNames : GoalAbsent(hs[h], g))

\* ------------------------------------------------------ service lifecycle
\* ChromaService.onStop: clearInterval, then the service's own processingGoals,
\* goalResponses and cryptoGoalCache are cleared; invocations of processGoals
\* already running go on
OnStop ==
  /\ timer.active # {}
  /\ timer' = [timer EXCEPT !.active = @ \ {timer.checkInterval}, !.last = "onStop"]
  /\ svc' = EmptyGoalState
  /\ UNCHANGED <<db, hs, tick, opTruthy, faulted, skipRest, poll, cg, bc, ext>>

\* the service from its start (onStart leaves the three collections empty and
\* the timer set, which is Init) to its stop
LifecycleNext == Next \/ OnStop

LifecycleSpec == Init /\ [][LifecycleNext]_vars

\* C15 as stated: a stop of the running service, taken while no tick is in
\* progress, leaves the timer cancelled, every in-memory per-goal cache of the
\* service and of each handler empty, and the goal store as it was
C15_StopClearsAllCaches ==
  [][(timer.active # {} /\ timer'.active = {} /\ \A t \in Ticks : tick[t].pc = "idle")
       => /\ svc' = EmptyGoalState
          /\ \A h \in HandlerNames : hs'[h] = EmptyGoalState
          /\ db' = db]_vars

\* ------------------------------------------------------ CREATE_CHROMA_GOAL
\* the messages the action is invoked with (Memory: id, userId, roomId and
\* content.text); the room of a message may or may not be named like its user,
\* and its author is a user or the agent itself
Messages ==
  [id : {"m1", "m2"}, userId : {"u1", "agent"}, roomId : {"u1", "r1"},
   text : {"swap 1 ETH", "bridge 5 USDC"}]

\* values of Date.now() at a call
Clock == {1, 2}

ChromaGoal_RoomOfMessage(message, now) ==
  [id |-> <<message.id, "chroma-goal", now>>,
   name |-> "Chroma Operation",
   status |-> "IN_PROGRESS",
   roomId |-> message.roomId,
   userId |-> message.userId,
   objectives |->
     << [id |-> "introduce-agent",
         description |-> "Introduce agent, with wallet data and chain preferences",
         completed |-> FALSE],
        [id |-> "present-operation", description |-> message.text, completed |-> FALSE],
        [id |-> "confirm-intent",
         description |-> "Confirm user intent to proceed with transfer",
         completed |-> FALSE],
        [id |-> "process-proposal", description |-> "Process transaction proposal",
         completed |-> FALSE] >>]

\* the goal literal of the handler; the id stands for
\* stringToUuid(`${message.id}-chroma-goal-${Date.now()}`)
ChromaGoal(message, now) ==
  [id |-> <<message.id, "chroma-goal", now>>,
   name |-> "Chroma Operation",
   status |-> "IN_PROGRESS",
   roomId |-> message.userId,
   userId |-> message.userId,
   objectives |->
     << [id |-> "introduce-agent",
         description |-> "Introduce agent, with wallet data and chain preferences",
         completed |-> FALSE],
        [id |-> "present-operation", description |-> message.text, completed |-> FALSE],
        [id |-> "confirm-intent",
         description |-> "Confirm user intent to proceed with transfer",
         completed |-> FALSE],
        [id |-> "process-proposal", description |-> "Process transaction proposal",
         completed |-> FALSE] >>]

HandlerResult_Rethrows(store) == IF store = "rejected" THEN "throw" ELSE "true"

\* `return true` after the awaited createGoal, `return false` from the catch
HandlerResult(store) == IF store = "rejected" THEN "false" ELSE "true"

\* the handler up to `await runtime.databaseAdapter?.createGoal(goal)`
CreateGoalCall ==
  /\ cg.pc \in {"idle", "returned"}
  /\ cg.calls < MaxCalls
  /\ \E message \in Messages, now \in Clock :
       cg' = [cg EXCEPT !.pc = "store", !.calls = @ + 1, !.message = message,
                        !.goal = ChromaGoal(message, now), !.store = "none",
                        !.before = Len(cg.created), !.result = "none"]
  /\ UNCHANGED <<orch, timer, poll, bc, ext>>

\* createGoal resolves: the goal is in the store
CreateGoalResolves ==
  /\ cg.pc = "store"
  /\ cg' = [cg EXCEPT !.pc = "returned", !.store = "resolved",
                      !.created = Append(@, cg.goal),
                      !.result = HandlerResult("resolved")]
  /\ UNCHANGED <<orch, timer, poll, bc, ext>>

\* createGoal rejects: nothing is stored, the catch answers
CreateGoalRejects ==
  /\ cg.pc = "store"
  /\ cg' = [cg EXCEPT !.pc = "returned", !.store = "rejected",
                      !.result = HandlerResult("rejected")]
  /\ UNCHANGED <<orch, timer, poll, bc, ext>>

CreateGoalNext == CreateGoalCall \/ CreateGoalResolves \/ CreateGoalRejects

CreateGoalSpec == Init /\ [][CreateGoalNext]_vars

\* C16: a call of the CREATE_CHROMA_GOAL handler whose createGoal is accepted
\* by the store has stored exactly one goal and returned true; the goal is
\* named 'Chroma Operation', is IN_PROGRESS, has roomId and userId equal to the
\* message's userId and the objectives introduce-agent, present-operation
\* (described by the message text), confirm-intent, process-proposal, none of
\* them completed; no call stores more than one goal
C16_CreatesOneChromaGoal ==
  /\ Len(cg.created) <= cg.before + 1
  /\ (cg.pc = "returned" /\ cg.store = "resolved") =>
       LET goal == cg.created[Len(cg.created)]
       IN /\ Len(cg.created) = cg.before + 1
          /\ cg.result = "true"
          /\ goal.name = "Chroma Operation"
          /\ goal.status = "IN_PROGRESS"
          /\ goal.roomId = cg.message.userId
          /\ goal.userId = cg.message.userId
          /\ [i \in 1..Len(goal.objectives) |-> goal.objectives[i].id]
               = <<"introduce-agent", "present-operation", "confirm-intent",
                   "process-proposal">>
          /\ goal.objectives[2].description = cg.message.text
          /\ \A i \in DOMAIN goal.objectives : ~goal.objectives[i].completed

\* C16 witness: a second call returned after its goal was stored, for a
\* message whose room is not named like its user
C16_Witness ==
  /\ cg.pc = "returned" /\ cg.store = "resolved" /\ cg.calls = 2
  /\ Len(cg.created) = 2 /\ cg.message.roomId # cg.message.userId

\* C17: when the store's createGoal fails the handler returns false (it does
\* not throw) and no goal was stored by the call
C17_StoreFailureReturnsFalse ==
  (cg.pc = "returned" /\ cg.store = "rejected") =>
     (cg.result = "false" /\ Len(cg.created) = cg.before)

\* C17 witness: a call returned after createGoal rejected
C17_Witness == cg.pc = "returned" /\ cg.store = "rejected" /\ cg.result = "false"

\* C18 as stated: a goal id is in the orchestrator's processing set only
\* while an invocation of processGoals is inside the handler call for that
\* goal (or in the catch that follows it); after the call has returned, or no
\* handler was found, the id is out of the set
C18_ProcessingSetOnlyWhileProcessing ==
  \A g \in Goals :
    g \in svc.processingGoals =>
      \E t \in Ticks : tick[t].pc \in HandlerPcs \cup {"rethrown"} /\ CurGoal(t) = g

\* ------------------------------------- handleProposal, per transaction
\* processTransaction for one transaction: it throws before sendTransaction
\* (no client, no data, fee estimation), or sendTransaction broadcasts and
\* waitForTransactionReceipt throws, or the receipt arrives
TxOutcomes == {"throwsBeforeSend", "sentReceiptThrows", "sentConfirmed"}

\* handleProposal finds a stored EVM proposal of n transactions and enters
\* retryWithBackoff; bc.sent counts the broadcasts of each transaction
BroadcastStart ==
  /\ bc.pc = "idle"
  /\ \E n \in 1..MaxTxs :
       bc' = [bc EXCEPT !.pc = "sign", !.n = n, !.next = 1, !.sent = [i \in 1..n |-> 0],
                        !.call = "running"]
  /\ UNCHANGED <<orch, timer, poll, cg, ext>>

ProcessTransaction_GoesOnAfterThrow(b, outcome) ==
  CASE outcome = "throwsBeforeSend" ->
         [b EXCEPT !.next = @ + 1,
                   !.call = IF b.next = b.n THEN "returned" ELSE "running",
                   !.pc = IF b.next = b.n THEN "persist" ELSE "sign"]
    [] outcome = "sentReceiptThrows" ->
         [b EXCEPT !.sent[b.next] = @ + 1, !.order = Append(@, b.next),
                   !.next = @ + 1,
                   !.call = IF b.next = b.n THEN "returned" ELSE "running",
                   !.pc = IF b.next = b.n THEN "persist" ELSE "sign"]
    [] OTHER ->
         [b EXCEPT !.sent[b.next] = @ + 1, !.order = Append(@, b.next),
                   !.results = Append(@, b.next), !.next = @ + 1,
                   !.call = IF b.next = b.n THEN "returned" ELSE "running",
                   !.pc = IF b.next = b.n THEN "persist" ELSE "sign"]

\* `const hash = await this.processTransaction(tx, account); results.push(hash)`
\* for the transaction at b.next: a throw of processTransaction is rethrown by
\* it and by signProposal; after the last push signProposal returns `results`
ProcessTransaction(b, outcome) ==
  CASE outcome = "throwsBeforeSend" ->
         [b EXCEPT !.call = "threw", !.pc = "backoff"]
    [] outcome = "sentReceiptThrows" ->
         [b EXCEPT !.sent[b.next] = @ + 1, !.order = Append(@, b.next),
                   !.call = "threw", !.pc = "backoff"]
    [] OTHER ->
         [b EXCEPT !.sent[b.next] = @ + 1, !.order = Append(@, b.next),
                   !.results = Append(@, b.next), !.next = @ + 1,
                   !.call = IF b.next = b.n THEN "returned" ELSE "running",
                   !.pc = IF b.next = b.n THEN "persist" ELSE "sign"]

\* one iteration of `for (const tx of proposal.transactions)` in
\* EVMSignatureHandler.signProposal; a throw leaves signProposal and the
\* retried operation
BroadcastTx ==
  /\ bc.pc = "sign"
  /\ \E outcome \in TxOutcomes : bc' = ProcessTransaction(bc, outcome)
  /\ UNCHANGED <<orch, timer, poll, cg, ext>>

\* signProposal returned the hashes: completeObjective and completeGoal write
\* the store, then `return true`; a failed write throws out of the operation
BroadcastPersist ==
  /\ bc.pc = "persist"
  /\ \E persisted \in BOOLEAN :
       bc' = IF persisted THEN [bc EXCEPT !.result = "true", !.pc = "done"]
             ELSE [bc EXCEPT !.pc = "backoff"]
  /\ UNCHANGED <<orch, timer, poll, cg, ext>>

\* the catch of retryWithBackoff: null once the retries are used up, else the
\* operation is called again and signProposal starts from the first transaction
BroadcastBackoff ==
  /\ bc.pc = "backoff"
  /\ bc' = IF RetriesExhausted(bc.attempt)
           THEN [bc EXCEPT !.result = "null", !.pc = "done"]
           ELSE [bc EXCEPT !.attempt = @ + 1, !.next = 1, !.pc = "sign",
                           !.order = <<>>, !.results = <<>>, !.call = "running"]
  /\ UNCHANGED <<orch, timer, poll, cg, ext>>

BroadcastNext == BroadcastStart \/ BroadcastTx \/ BroadcastPersist \/ BroadcastBackoff

BroadcastSpec == Init /\ [][BroadcastNext]_vars

\* C19 as stated: within one process-proposal objective no transaction of the
\* proposal is broadcast more than once, whatever fails and is retried
C19_BroadcastAtMostOnce ==
  \A i \in DOMAIN bc.sent : bc.sent[i] <= 1

\* C20 as stated: an attempt of the single-chain or CDP handler that completes
\* introduce-agent or present-operation does so on an accepting verdict of the
\* reply validator; an attempt on which the validator rejected completes nothing
C20_CompletedOnlyOnAcceptingVerdict ==
  \A t \in Ticks :
    (/\ tick[t].pc = "afterRetry"
     /\ tick[t].h \in {"single", "cdp"}
     /\ tick[t].obj \in {"introduce-agent", "present-operation"}
     /\ GetObjectiveStatus(CurObjs(t), tick[t].obj) = "completed")
    => tick[t].verdict = "valid"

\* objective oid of objs exists and has completed = true
IsCompleted(objs, oid) ==
  LET i == FindObjective(objs, oid) IN i # 0 /\ objs[i].completed

\* C21 as stated: when the present-operation step has returned with
\* present-operation completed and confirm-intent still open, the working
\* response stored for the goal carries an intent
C21_OperationCompletedOnIntent ==
  \A t \in Ticks :
    (/\ tick[t].pc = "afterRetry"
     /\ tick[t].obj = "present-operation"
     /\ IsCompleted(CurObjs(t), "present-operation")
     /\ ~IsCompleted(CurObjs(t), "confirm-intent"))
    => StoredResponse(t).intent

\* the completed objectives of objs are its first k objectives, for some k
CompletedIsPrefix(objs) ==
  \A i, j \in DOMAIN objs : (i < j /\ objs[j].completed) => objs[i].completed

\* C22: the objectives of a goal are worked on strictly in list order: the
\* completed objectives of the stored goal and of the goal object a handler
\* works on form a prefix of the list, and whenever a handler is in the step of
\* an objective every objective before it is completed and it is not
C22_ObjectivesSequential ==
  /\ \A g \in Goals : CompletedIsPrefix(db[g].objs)
  /\ \A t \in Ticks :
       tick[t].pc \in HandlerPcs =>
         /\ CompletedIsPrefix(CurObjs(t))
         /\ tick[t].pc \in {"genText", "retry"} =>
              LET i == FindObjective(CurObjs(t), tick[t].obj)
              IN /\ i # 0
                 /\ ~CurObjs(t)[i].completed
                 /\ \A j \in 1..(i - 1) : CurObjs(t)[j].completed

\* C22 witness: a handler is in the step of the fourth objective of its goal
\* after the three before it were completed
C22_Witness ==
  \E t \in Ticks :
    /\ tick[t].pc = "retry"
    /\ FindObjective(CurObjs(t), tick[t].obj) = 4
    /\ \A j \in 1..3 : CurObjs(t)[j].completed

\* the objectives whose step is handleProposal and handleIntent
ProcessProposalIds ==
  {"process-proposal", "process-proposal-bridge-chain-a", "process-proposal-deposit-chain-b"}

ConfirmIntentIds ==
  {"confirm-intent", "confirm-intent-bridge-chain-a", "confirm-intent-deposit-chain-b"}

\* the names of the registered signature handlers
Signers == {SignatureHandlers[i] : i \in DOMAIN SignatureHandlers}

\* tick t makes an attempt in this step and routes a proposal to a signer in it
HandsToSigner(t) ==
  /\ tick[t].pc = "retry"
  /\ ~RetriesExhausted(tick[t].attempt)
  /\ tick'[t] # tick[t]
  /\ tick'[t].to \in Signers

C24_CompletedOnlyWithHash ==
  \A t \in Ticks :
    (/\ tick[t].pc = "afterRetry"
     /\ tick[t].obj \in ProcessProposalIds
     /\ IsCompleted(CurObjs(t), tick[t].obj))
    => tick[t].sign = "hash"

\* C25 as stated: once the stored status of a goal is DONE or FAILED no step
\* changes it, and no invocation of processGoals enters a handler for that goal
C25_TerminalStatusAbsorbing ==
  [][\A g \in Goals :
       db[g].status \in {"DONE", "FAILED"} =>
         /\ db'[g].status = db[g].status
         /\ \A t \in Ticks :
              ~(/\ tick[t].pc \notin HandlerPcs
                /\ tick'[t].pc \in HandlerPcs
                /\ Head(tick'[t].goals).id = g)]_vars

\* C26 as stated: a throwing oracle or counterparty call is absorbed by the
\* retry wrapper: no exception reaches the catch of processObjective or of
\* processGoals, and no goal is marked FAILED because of one (in the model an
\* exception is the only way to FAILED)
C26_OracleFailureAbsorbed ==
  /\ \A t \in Ticks : tick[t].pc \notin {"catch", "rethrown"}
  /\ \A g \in Goals : db[g].status # "FAILED"

EntersHandler(t) ==
  /\ tick[t].pc \notin HandlerPcs
  /\ tick'[t].pc \in HandlerPcs

\* C28: a tick hands a goal to a handler only when the goal's id was not in
\* the processing set and the goal is classified crypto-relevant, and the
\* handler is the first of single-chain, wallet-provisioning, multi-chain that
\* supports the goal; while a goal is classified not crypto-relevant no tick is
\* inside a handler for it
C28_RoutingGuards ==
  /\ [][\A t \in Ticks :
          EntersHandler(t) =>
            LET g == CurGoal(t)
                objs == CurObjs(t)
            IN /\ g \notin svc.processingGoals
               /\ svc'.cryptoGoalCache[g] = "true"
               /\ tick'[t].h =
                    IF SupportsGoal("single", objs) THEN "single"
                    ELSE IF SupportsGoal("cdp", objs) THEN "cdp"
                    ELSE "multi"
               /\ SupportsGoal(tick'[t].h, objs)]_vars
  /\ [](\A g \in Goals :
          svc.cryptoGoalCache[g] = "false" => \A t \in Ticks : ~InFlight(t, g))

\* C28 witness: a wallet-provisioning goal is inside the second registered
\* handler, its id in the processing set
C28_Witness ==
  \E t \in Ticks :
    /\ tick[t].pc = "process" /\ tick[t].h = "cdp"
    /\ CurGoal(t) \in svc.processingGoals
    /\ svc.cryptoGoalCache[CurGoal(t)] = "true"

\* C29 as stated: every in-progress goal of one of the shapes the system
\* produces (single-chain, multi-chain, wallet-provisioning, autonomous-yield)
\* is eventually inside the processObjective of a handler, unless its
\* classification did not come out crypto-relevant
C29_EveryShapeIsRouted ==
  \A g \in Goals :
    <>(\/ g \in faulted
       \/ \E t \in Ticks : InFlight(t, g))

\* C30 as stated: the classification oracle is called for a goal only while
\* the memo has no entry for its id, and a tick that finds an entry uses a
\* verdict the oracle returned (true or false)
C30_MemoHoldsOracleVerdict ==
  [][\A t \in Ticks :
       (tick[t].pc = "loop" /\ tick'[t] # tick[t]) =>
         LET g == CurGoal(t)
             memo == svc.cryptoGoalCache[g]
         IN /\ tick'[t].pc = "classify" => memo = "absent"
            /\ (~AlreadyProcessing(svc, g) /\ memo # "absent")
                 => memo \in {"true", "false"}]_vars

\* C31 as stated: a memo entry without a verdict exists for a goal only while
\* a classification call for that goal is pending; none survives a call that
\* threw, so that a later tick asks the oracle again
C31_NoVerdictlessMemoSurvives ==
  \A g \in Goals :
    svc.cryptoGoalCache[g] = "undefined"
      => \E t \in Ticks : tick[t].pc = "classify" /\ CurGoal(t) = g

\* ----------------------------------------------------- restart of the process
\* the objectives of a goal whose first k objectives were persisted as completed
CompletedThrough(ids, k) ==
  [i \in 1..Len(ids) |->
     [id |-> ids[i], completed |-> (i <= k), status |-> "none"]]

\* The process starts over a store that holds goals some earlier process left
\* in progress: the persisted objectives are those of any point of a workflow,
\* while processingGoals, cryptoGoalCache and every handler's responses and
\* proposals are the empty Maps of the constructors.
RestartInit ==
  /\ db \in [Goals -> UNION {{[status |-> "IN_PROGRESS", objs |-> CompletedThrough(s, k)] :
                                 k \in 0..Len(s)} : s \in GoalShapes}]
  /\ svc = EmptyGoalState
  /\ hs = [h \in HandlerNames |-> EmptyGoalState]
  /\ tick = [t \in Ticks |-> IdleTick]
  /\ opTruthy = [g \in Goals |-> {}]
  /\ faulted = {}
  /\ skipRest = {}
  /\ timer = StartedTimer
  /\ poll = IdlePoll
  /\ cg = IdleCreateGoal
  /\ bc = IdleBroadcast
  /\ sch = IdleSched
  /\ ay = IdleAutoYield
  /\ sol = IdleSolana

RestartSpec == RestartInit /\ [][Next]_vars

RestartFairSpec ==
  RestartSpec /\ \A t \in Ticks : WF_vars(TickStart(t)) /\ WF_vars(TickStep(t))

\* C33 as stated: a goal of a registered workflow that is in progress with
\* present-operation persisted as completed, confirm-intent pending and no
\* cached working response eventually has a terminal status (or met a reply
\* other than the accepting one on the way)
C33_LostResponseStillTerminates ==
  \A g \in Goals :
    (/\ db[g].status = "IN_PROGRESS"
     /\ HandlerOf(g) # "none"
     /\ IsCompleted(db[g].objs, "present-operation")
     /\ ~IsCompleted(db[g].objs, "confirm-intent")
     /\ ~hs[HandlerOf(g)].goalResponses[g].present)
      ~> (db[g].status \in {"DONE", "FAILED"} \/ g \in faulted)

\* C34: in a bridge wait that never observed a positive balance, no balance
\* query is sent once 40 minutes have passed since the wait started, and the
\* wait ends with the retry result null and wait-for-chain-b-confirmation
\* ABORTED and not completed
C34_NoQueryAfterCeiling ==
  ~poll.hasBalance
    => /\ poll.lastQueryAt < MAX_BRIDGE_WAIT_TIME_MS
       /\ poll.pc = "done" => (poll.result = "null" /\ poll.aborted /\ ~poll.completed)

\* C34 witness: a wait that only read zero balances ran past the ceiling, used
\* up its retries without another query and ended ABORTED
C34_Witness ==
  /\ poll.pc = "done" /\ poll.result = "null" /\ poll.aborted /\ ~poll.completed
  /\ ~poll.hasBalance
  /\ poll.zeros > 3
  /\ poll.now >= MAX_BRIDGE_WAIT_TIME_MS
  /\ poll.attempt = MAX_RETRIES

\* the sequence <<1, ..., Len(q)>>
InListOrder(q) == \A i \in DOMAIN q : q[i] = i

InConfirmationRecovery ==
  \E t \in Ticks :
    /\ tick[t].pc = "afterRetry"
    /\ tick[t].obj = "confirm-intent"
    /\ tick[t].res = "null"
    /\ tick'[t] # tick[t]

\* C36 as stated: outside the failed-confirmation recovery no step takes the
\* completed flag of an objective from true to false, neither in the stored
\* goal nor in the goal object a tick works on
C36_CompletedNeverReset ==
  [][~InConfirmationRecovery =>
       /\ \A g \in Goals : \A i \in DOMAIN db[g].objs :
            db[g].objs[i].completed => db'[g].objs[i].completed
       /\ \A t \in Ticks :
            (tick[t].goals # <<>> /\ tick'[t].goals # <<>> /\ CurGoal(t)' = CurGoal(t))
              => \A i \in DOMAIN CurObjs(t) :
                   CurObjs(t)[i].completed => CurObjs(t)'[i].completed]_vars

\* ------------------------------------- the orchestrator's query of the store
\* this.runtime.agentId
AgentId == "agent"

\* the parameters processGoals passes to databaseAdapter.getGoals
ProcessGoalsQuery == [agentId |-> AgentId, roomId |-> AgentId, onlyInProgress |-> TRUE]

\* databaseAdapter.getGoals over the goals the action stored: those of the
\* room asked for, and of them the IN_PROGRESS ones when onlyInProgress is set
GetGoalsOf(stored, params) ==
  SelectSeq(stored,
            LAMBDA goal : /\ goal.roomId = params.roomId
                          /\ (params.onlyInProgress => goal.status = "IN_PROGRESS"))

\* C37 as stated: every goal the CREATE_CHROMA_GOAL action stored is among
\* the goals the orchestrator's query returns
C37_CreatedGoalsAreQueried ==
  \A i \in DOMAIN cg.created :
    \E k \in DOMAIN GetGoalsOf(cg.created, ProcessGoalsQuery) :
      GetGoalsOf(cg.created, ProcessGoalsQuery)[k] = cg.created[i]

\* ----------------------------------------------------- the interval timer
StartGoalChecking_KeepsOldTimer(tm) ==
  [tm EXCEPT !.issued = @ + 1,
             !.active = @ \cup {tm.issued + 1},
             !.checkInterval = tm.issued + 1]

\* ChromaService.startGoalChecking: clearInterval of the timer held in
\* checkInterval, then checkInterval = setInterval(...), a new timer
StartGoalChecking(tm) ==
  [tm EXCEPT !.issued = @ + 1,
             !.active = (@ \ {tm.checkInterval}) \cup {tm.issued + 1},
             !.checkInterval = tm.issued + 1]

\* initialize is called and suspends at its first await (apiClient.initialize)
InitializeCall ==
  /\ timer.pending < MaxCalls
  /\ timer' = [timer EXCEPT !.pending = @ + 1]
  /\ UNCHANGED <<orch, poll, cg, bc, ext>>

\* the awaited initializations of a call of initialize have all resolved: the
\* handlers are registered and startGoalChecking runs
InitializeDone ==
  /\ timer.pending > 0
  /\ timer.issued < MaxTimers
  /\ timer' = [StartGoalChecking(timer) EXCEPT !.pending = @ - 1, !.last = "initialize"]
  /\ UNCHANGED <<orch, poll, cg, bc, ext>>

\* one of the awaited initializations rejects: initialize rejects before
\* startGoalChecking
InitializeFails ==
  /\ timer.pending > 0
  /\ timer' = [timer EXCEPT !.pending = @ - 1]
  /\ UNCHANGED <<orch, poll, cg, bc, ext>>

\* ChromaService.onStart: the three collections are cleared and
\* startGoalChecking runs
OnStart ==
  /\ timer.issued < MaxTimers
  /\ timer' = [StartGoalChecking(timer) EXCEPT !.last = "onStart"]
  /\ svc' = EmptyGoalState
  /\ UNCHANGED <<db, hs, tick, opTruthy, faulted, skipRest, poll, cg, bc, ext>>

\* the lifecycle calls of the service in any order, no tick running
TimerNext == InitializeCall \/ InitializeDone \/ InitializeFails \/ OnStart \/ OnStop

TimerSpec == Init /\ [][TimerNext]_vars

ExampleModeSettings == {"null", "", "true", "false"}

\* `if (isExampleMode)`: null and the empty string are falsy, any other
\* string is truthy
IsExampleMode(setting) == setting \notin {"null", ""}

AfterSign_AlwaysSends(setting) == "blockhash"

\* after transaction.sign: the simulation in example mode, else the way to
\* sendRawTransaction, which starts with getLatestBlockhash
AfterSign(setting) == IF IsExampleMode(setting) THEN "simulate" ELSE "blockhash"

\* signProposal up to its first await: the checks of connection and keypair,
\* of proposal.transactions and proposal.transaction, and deserialize and sign,
\* each of which may throw
SolanaSignCall ==
  /\ sol.pc \in {"idle", "returned", "threw"}
  /\ sol.calls < MaxCalls
  /\ \E initialized \in BOOLEAN, proposal \in ProposalShapes,
        deserializes \in BOOLEAN, setting \in ExampleModeSettings :
       sol' = [IdleSolana EXCEPT
                 !.calls = sol.calls + 1,
                 !.proposal = proposal,
                 !.setting = setting,
                 !.pc = IF /\ initialized
                           /\ ~proposal.transactions
                           /\ proposal.transaction = "serialized"
                           /\ deserializes
                        THEN AfterSign(setting)
                        ELSE "threw"]
  /\ UNCHANGED <<orch, timer, poll, cg, bc, sch, ay>>

\* connection.simulateTransaction settles: the sentinel is returned, or the
\* rejection is rethrown
SolanaSimulate ==
  /\ sol.pc = "simulate"
  /\ \E outcome \in {"ok", "err", "throws"} :
       sol' = CASE outcome = "ok" ->
                     [sol EXCEPT !.simulations = @ + 1, !.pc = "returned",
                                 !.result = "simulation_success"]
                [] outcome = "err" ->
                     [sol EXCEPT !.simulations = @ + 1, !.pc = "returned",
                                 !.result = "simulation_failed"]
                [] OTHER ->
                     [sol EXCEPT !.simulations = @ + 1, !.pc = "threw"]
  /\ UNCHANGED <<orch, timer, poll, cg, bc, sch, ay>>

\* connection.getLatestBlockhash settles
SolanaBlockhash ==
  /\ sol.pc = "blockhash"
  /\ \E resolved \in BOOLEAN :
       sol' = [sol EXCEPT !.pc = IF resolved THEN "send" ELSE "threw"]
  /\ UNCHANGED <<orch, timer, poll, cg, bc, sch, ay>>

\* connection.sendRawTransaction settles: the raw transaction went to the
\* network and a signature comes back, or the call rejects with the
\* transaction sent or not
SolanaSend ==
  /\ sol.pc = "send"
  /\ \E outcome \in {"signature", "rejectsSent", "rejectsUnsent"} :
       sol' = CASE outcome = "signature" ->
                     [sol EXCEPT !.broadcasts = @ + 1, !.pc = "confirm"]
                [] outcome = "rejectsSent" ->
                     [sol EXCEPT !.broadcasts = @ + 1, !.pc = "threw"]
                [] OTHER -> [sol EXCEPT !.pc = "threw"]
  /\ UNCHANGED <<orch, timer, poll, cg, bc, sch, ay>>

\* connection.confirmTransaction settles: `return signature`, or the rethrow
SolanaConfirm ==
  /\ sol.pc = "confirm"
  /\ \E resolved \in BOOLEAN :
       sol' = IF resolved THEN [sol EXCEPT !.pc = "returned", !.result = "signature"]
              ELSE [sol EXCEPT !.pc = "threw"]
  /\ UNCHANGED <<orch, timer, poll, cg, bc, sch, ay>>

SolanaNext ==
  SolanaSignCall \/ SolanaSimulate \/ SolanaBlockhash \/ SolanaSend \/ SolanaConfirm

SolanaSpec == Init /\ [][SolanaNext]_vars

\* C39: a call of the Solana signProposal made in example mode never sends the
\* raw transaction; when it returns it has simulated the signed transaction
\* once and its result is simulation_success or simulation_failed
C39_ExampleModeNeverBroadcasts ==
  (sol.pc # "idle" /\ IsExampleMode(sol.setting))
    => /\ sol.broadcasts = 0
       /\ sol.pc \in {"simulate", "returned", "threw"}
       /\ sol.pc = "returned"
            => /\ sol.simulations = 1
               /\ sol.result \in {"simulation_success", "simulation_failed"}

\* C39 witness: a call in example mode returned the sentinel of a successful
\* simulation
C39_Witness ==
  /\ sol.pc = "returned"
  /\ IsExampleMode(sol.setting)
  /\ sol.result = "simulation_success"
  /\ sol.simulations = 1
  /\ sol.broadcasts = 0

\* ------------------------------- AutoYieldGoalHandler.handleProcessProposal
\* texts of the reply the operator sends to the confirmation message; "absent"
\* stands for a response without a text
ReplyTexts ==
  {"No proposals available right now", "Your position is already optimal",
   "Deposit confirmed", "absent"}

\* latestResponse.text.match(/no proposals|no better yield|try again|
\* no .* opportunities|already.*optimal/i), over the texts above
MatchesNoMore(text) ==
  text \in {"No proposals available right now", "Your position is already optimal"}

\* the replies of sendMessage: up to two responses
ReplyLists ==
  {<<>>} \cup {<<a>> : a \in ReplyTexts} \cup {<<a, b>> : a \in ReplyTexts, b \in ReplyTexts}

\* the goal literal of createBalanceCheckGoal; the id stands for
\* stringToUuid(`${character.id}-balance-check-${Date.now()}`)
BalanceCheckGoal(now) ==
  [id |-> <<"character", "balance-check", now>>,
   name |-> "Check Wallet Balances",
   status |-> "IN_PROGRESS",
   roomId |-> "character",
   userId |-> "character",
   objectives |->
     << [id |-> "check-balance",
         description |-> "Check wallet balances across all networks",
         completed |-> FALSE] >>]

NeedsNextStep_Always(text) == TRUE

\* checkForNextOptimizationStep up to its try block: it returns when the text
\* of the latest stored response matches the pattern
NeedsNextStep(text) == ~MatchesNoMore(text)

\* handleProcessProposal up to its first await: without proposals in the
\* stored response the goal is failed, else the final validation is asked for
AutoYieldCall ==
  /\ ay.pc \in {"idle", "done"}
  /\ ay.calls < MaxCalls
  /\ \E hasProposals \in BOOLEAN :
       ay' = [IdleAutoYield EXCEPT
                !.calls = ay.calls + 1,
                !.created = ay.created,
                !.before = Len(ay.created),
                !.pc = IF hasProposals THEN "validate" ELSE "done",
                !.status = IF hasProposals THEN "IN_PROGRESS" ELSE "FAILED"]
  /\ UNCHANGED <<orch, timer, poll, cg, bc, sch, sol>>

\* generateObject settles: `continue` leads to signProposal, a rejection of
\* the proposal or a throw fails the goal
AutoYieldValidate ==
  /\ ay.pc = "validate"
  /\ \E outcome \in {"continue", "reject", "throws"} :
       ay' = IF outcome = "continue" THEN [ay EXCEPT !.pc = "sign"]
             ELSE [ay EXCEPT !.pc = "done", !.status = "FAILED"]
  /\ UNCHANGED <<orch, timer, poll, cg, bc, sch, sol>>

\* signProposal settles: a truthy result leads to the confirmation message, a
\* falsy one or a throw fails the goal
AutoYieldSign ==
  /\ ay.pc = "sign"
  /\ \E outcome \in {"hash", "falsy", "throws"} :
       ay' = IF outcome = "hash" THEN [ay EXCEPT !.signed = TRUE, !.pc = "confirm"]
             ELSE [ay EXCEPT !.pc = "done", !.status = "FAILED"]
  /\ UNCHANGED <<orch, timer, poll, cg, bc, sch, sol>>

\* generateText and sendMessage settle: a throw fails the goal; no response
\* ends the handler; else every response is stored (the last one stays) and
\* completeObjective sets the flag and awaits updateGoal
AutoYieldConfirm ==
  /\ ay.pc = "confirm"
  /\ \E threw \in BOOLEAN, responses \in ReplyLists :
       ay' = IF threw THEN [ay EXCEPT !.pc = "done", !.status = "FAILED"]
             ELSE IF responses = <<>> THEN [ay EXCEPT !.pc = "done"]
             ELSE [ay EXCEPT !.text = responses[Len(responses)],
                             !.completed = TRUE, !.pc = "persist"]
  /\ UNCHANGED <<orch, timer, poll, cg, bc, sch, sol>>

\* updateGoal of completeObjective settles: a rejection fails the goal; else
\* checkForNextOptimizationStep returns at once or calls createBalanceCheckGoal
AutoYieldPersist ==
  /\ ay.pc = "persist"
  /\ \E resolved \in BOOLEAN :
       ay' = IF ~resolved THEN [ay EXCEPT !.pc = "done", !.status = "FAILED"]
             ELSE [ay EXCEPT !.persisted = TRUE,
                             !.pc = IF NeedsNextStep(ay.text) THEN "create" ELSE "done"]
  /\ UNCHANGED <<orch, timer, poll, cg, bc, sch, sol>>

\* createGoal of createBalanceCheckGoal settles: the goal is in the store, or
\* the rejection is logged by the catch of checkForNextOptimizationStep
AutoYieldCreate ==
  /\ ay.pc = "create"
  /\ \E resolved \in BOOLEAN, now \in Clock :
       ay' = IF resolved
             THEN [ay EXCEPT !.created = Append(@, BalanceCheckGoal(now)),
                             !.store = "resolved", !.pc = "done"]
             ELSE [ay EXCEPT !.store = "rejected", !.pc = "done"]
  /\ UNCHANGED <<orch, timer, poll, cg, bc, sch, sol>>

AutoYieldNext ==
  \/ AutoYieldCall \/ AutoYieldValidate \/ AutoYieldSign
  \/ AutoYieldConfirm \/ AutoYieldPersist \/ AutoYieldCreate

AutoYieldSpec == Init /\ [][AutoYieldNext]_vars

\* C38 as stated: when handleProcessProposal has ended with the proposal
\* signed and process-proposal completed and persisted, the call has created a
\* balance-check goal
C38_FollowUpAlwaysCreated ==
  (ay.pc = "done" /\ ay.signed /\ ay.completed /\ ay.persisted)
    => Len(ay.created) = ay.before + 1

\* C38 amended: a call creates at most one goal, a balance-check goal, and
\* only with the proposal signed and process-proposal persisted as completed;
\* a call that ended that way has created it exactly when the text of the last
\* reply does not say that nothing is left to optimize and the store accepted
\* createGoal
C38_FollowUpUnlessNoMore ==
  /\ Len(ay.created) <= ay.before + 1
  /\ \A i \in DOMAIN ay.created :
       /\ ay.created[i].name = "Check Wallet Balances"
       /\ ay.created[i].status = "IN_PROGRESS"
       /\ Len(ay.created[i].objectives) = 1
       /\ ay.created[i].objectives[1].id = "check-balance"
  /\ Len(ay.created) = ay.before + 1
       => (ay.signed /\ ay.persisted /\ ~MatchesNoMore(ay.text))
  /\ (ay.pc = "done" /\ ay.signed /\ ay.completed /\ ay.persisted)
       => (Len(ay.created) = ay.before + 1
             <=> (~MatchesNoMore(ay.text) /\ ay.store = "resolved"))

\* C38 witness: a call signed the proposal, stored a reply that does not
\* match the pattern, persisted process-proposal and created the goal
C38_Witness ==
  /\ ay.pc = "done" /\ ay.signed /\ ay.completed /\ ay.persisted
  /\ ay.text = "Deposit confirmed"
  /\ ay.store = "resolved"
  /\ Len(ay.created) = ay.before + 1

\* ------------------------------------------ processGoals over several goals
\* the objective ids of the goals of the store: single-chain, multi-chain and
\* autonomous-yield goals in turn
SchedShape(g) ==
  IF g % 3 = 1 THEN SingleChainObjectiveIds
  ELSE IF g % 3 = 2 THEN MultiChainObjectiveIds
  ELSE AutoYieldObjectiveIds

RECURSIVE SchedGoalsFrom(_)
SchedGoalsFrom(g) ==
  IF g > MaxSchedGoals THEN <<>>
  ELSE (IF sch.status[g] = "IN_PROGRESS" THEN <<g>> ELSE <<>>) \o SchedGoalsFrom(g + 1)

\* databaseAdapter.getGoals({agentId, roomId, onlyInProgress: true})
SchedGetGoals == SchedGoalsFrom(1)

\* `continue`, or the end of the loop body: the next goal of the list, or the
\* end of processGoals after the last
SchedAdvance(tk) ==
  [tk EXCEPT !.goals = Tail(@),
             !.pc = IF Len(tk.goals) = 1 THEN "idle" ELSE "loop"]

AwaitProcessObjective_NotAwaited(tk) == SchedAdvance(tk)

\* `await handler.processObjective(goal)`: the invocation is suspended until
\* the call settles
AwaitProcessObjective(tk) == [tk EXCEPT !.pc = "handler"]

\* the try block of the loop up to its await: the id joins processingGoals,
\* a goal that no handler supports is passed over, else processObjective is called
SchedEnter(t, s) ==
  LET g == Head(sch.tick[t].goals)
      entered == [s EXCEPT !.processingGoals = @ \cup {g}]
  IN sch' = IF GetHandlerForGoal(NewObjectives(SchedShape(g))) = "none"
            THEN [entered EXCEPT !.tick[t] = SchedAdvance(@)]
            ELSE [entered EXCEPT !.tick[t] =
                    AwaitProcessObjective([@ EXCEPT !.running = @ \cup {g}])]

\* setInterval callback: processGoals reads the in-progress goals
SchedStart(t) ==
  /\ sch.tick[t].pc = "idle"
  /\ \A u \in Ticks : u < t => sch.tick[u].pc # "idle"
  /\ SchedGetGoals # <<>>
  /\ sch' = [sch EXCEPT !.tick[t] =
               [@ EXCEPT !.pc = "loop", !.goals = SchedGetGoals,
                         !.others = UNION {sch.tick[u].running : u \in Ticks \ {t}}]]
  /\ UNCHANGED <<orch, timer, poll, cg, bc, ay, sol>>

\* one iteration of the loop up to its first suspension: the dedup check and
\* the synchronous part of isCryptoGoal
SchedLoop(t) ==
  /\ sch.tick[t].pc = "loop"
  /\ LET g == Head(sch.tick[t].goals)
         memo == sch.cryptoGoalCache[g]
     IN IF g \in sch.processingGoals
        THEN sch' = [sch EXCEPT !.tick[t] = SchedAdvance(@)]
        ELSE IF memo = "absent"
        THEN sch' = [sch EXCEPT !.cryptoGoalCache[g] = "undefined", !.tick[t].pc = "classify"]
        ELSE IF memo = "true"
        THEN SchedEnter(t, sch)
        ELSE sch' = [sch EXCEPT !.tick[t] = SchedAdvance(@)]
  /\ UNCHANGED <<orch, timer, poll, cg, bc, ay, sol>>

\* the oracle of isCryptoGoal answers
SchedClassified(t) ==
  /\ sch.tick[t].pc = "classify"
  /\ \E verdict \in {"true", "false"} :
       LET g == Head(sch.tick[t].goals)
           s == [sch EXCEPT !.cryptoGoalCache[g] = verdict]
       IN IF verdict = "true" THEN SchedEnter(t, s)
          ELSE sch' = [s EXCEPT !.tick[t] = SchedAdvance(@)]
  /\ UNCHANGED <<orch, timer, poll, cg, bc, ay, sol>>

\* the oracle throws outside the try block: processGoals rejects
SchedClassifyThrows(t) ==
  /\ sch.tick[t].pc = "classify"
  /\ sch' = [sch EXCEPT !.tick[t] = [@ EXCEPT !.pc = "idle", !.goals = <<>>]]
  /\ UNCHANGED <<orch, timer, poll, cg, bc, ay, sol>>

\* the invocation after a processObjective call of its own settled: resumed
\* behind the await when it was suspended on that call
SchedResume(tk, g) ==
  LET settled == [tk EXCEPT !.running = @ \ {g}]
  IN IF tk.pc = "handler" /\ Head(tk.goals) = g THEN SchedAdvance(settled) ELSE settled

\* processObjective resolves, with the goal still in progress, DONE or FAILED
SchedHandlerReturns(t) ==
  /\ \E g \in sch.tick[t].running, status \in {"IN_PROGRESS", "DONE", "FAILED"} :
       sch' = [sch EXCEPT !.status[g] = status, !.tick[t] = SchedResume(@, g)]
  /\ UNCHANGED <<orch, timer, poll, cg, bc, ay, sol>>

\* processObjective rejects: the catch removes the goal's entries
SchedHandlerThrows(t) ==
  /\ \E g \in sch.tick[t].running, status \in {"IN_PROGRESS", "FAILED"} :
       sch' = [sch EXCEPT !.status[g] = status,
                          !.processingGoals = @ \ {g},
                          !.cryptoGoalCache[g] = "absent",
                          !.tick[t] = SchedResume(@, g)]
  /\ UNCHANGED <<orch, timer, poll, cg, bc, ay, sol>>

SchedNext ==
  \E t \in Ticks :
    \/ SchedStart(t) \/ SchedLoop(t) \/ SchedClassified(t) \/ SchedClassifyThrows(t)
    \/ SchedHandlerReturns(t) \/ SchedHandlerThrows(t)

SchedSpec == Init /\ [][SchedNext]_vars

\* C32: an invocation of processGoals has at most one handler call open, the
\* one for the goal it stands at, on which it is suspended: it reaches the
\* next goal of its list only after that call settled; an invocation suspended
\* in a handler does not keep a later tick from entering the handler of
\* another goal (the witness)
C32_SequentialWithinTick ==
  \A t \in Ticks :
    LET tk == sch.tick[t]
    IN /\ Cardinality(tk.running) <= 1
       /\ tk.running # {} => (tk.pc = "handler" /\ tk.running = {Head(tk.goals)})
       /\ tk.pc = "handler" => tk.running = {Head(tk.goals)}
       /\ tk.running \subseteq sch.processingGoals

\* C32 witness: a tick that started while another invocation was suspended in
\* the handler of one goal is inside the handler of another goal, the first
\* invocation still suspended
C32_Witness ==
  \E t, u \in Ticks : \E g, h \in SchedGoals :
    /\ t # u /\ g # h
    /\ sch.tick[t].pc = "handler" /\ sch.tick[t].running = {g}
    /\ g \in sch.tick[u].others
    /\ sch.tick[u].pc = "handler" /\ sch.tick[u].running = {h}

====
